---- MODULE Spec2Model ----
(***************************************************************************)
(* A model of the chess engine kernel of chess_in_rust: the 0x88 board     *)
(* with make/undo/redo (src/src/engine.rs), the move generator, the        *)
(* attack detection, and the iterative-deepening search with its           *)
(* transposition table (src/src/transposition.rs) and Zobrist keys         *)
(* (src/src/zobrist.rs).                                                   *)
(*                                                                         *)
(* Conventions: Option<Sq>::None is NoneSq, Option<Piece>::None is         *)
(* NonePiece, a Vec is a sequence with its first element at index 1, a     *)
(* u64 is the set of its one bits.                                         *)
(***************************************************************************)
EXTENDS Integers, Sequences, FiniteSets, TLC

BOARD_SIZE == 128

NoneSq == 0 - 1

NonePiece == "None"

\* ---------------------------------------------------------------------
\* Bounds of the model
\* ---------------------------------------------------------------------
\* longest line of play (length of history) explored by the play actions
MaxPly == 1

\* the play actions stop moving forward when fullmove has reached this value
MaxFullmove == 3

\* deepest search asked of ai_move by the hint and go-depth actions
MaxDepth == 2

\* latest deadline: the largest number of clock readings that still find the
\* elapsed time below the limit
MaxTicks == 18

\* ---------------------------------------------------------------------
\* enum Piece
\* ---------------------------------------------------------------------
WhitePieces == {"WP", "WN", "WB", "WR", "WQ", "WK"}

BlackPieces == {"BP", "BN", "BB", "BR", "BQ", "BK"}

Piece == {"Empty"} \cup WhitePieces \cup BlackPieces

from_char(c) ==
    CASE c = "P" -> "WP" [] c = "N" -> "WN" [] c = "B" -> "WB"
      [] c = "R" -> "WR" [] c = "Q" -> "WQ" [] c = "K" -> "WK"
      [] c = "p" -> "BP" [] c = "n" -> "BN" [] c = "b" -> "BB"
      [] c = "r" -> "BR" [] c = "q" -> "BQ" [] c = "k" -> "BK"
      [] OTHER -> "Empty"

to_char(p) ==
    CASE p = "WP" -> "P" [] p = "WN" -> "N" [] p = "WB" -> "B"
      [] p = "WR" -> "R" [] p = "WQ" -> "Q" [] p = "WK" -> "K"
      [] p = "BP" -> "p" [] p = "BN" -> "n" [] p = "BB" -> "b"
      [] p = "BR" -> "r" [] p = "BQ" -> "q" [] p = "BK" -> "k"
      [] OTHER -> "."

is_white(p) == p \in WhitePieces

is_black(p) == p \in BlackPieces

is_empty(p) == p = "Empty"

\* ---------------------------------------------------------------------
\* 0x88 helpers
\* ---------------------------------------------------------------------
\* (s & 0x88) == 0 on the usize obtained from an i32 in -128..: a negative
\* value has bit 7 set after the cast, so it is off the board.
on_board(s) == s >= 0 /\ (s \div 8) % 2 = 0 /\ (s \div 128) % 2 = 0

RECURSIVE BitOr(_, _)
BitOr(a, b) ==
    IF a = 0 THEN b
    ELSE IF b = 0 THEN a
    ELSE (IF a % 2 = 1 \/ b % 2 = 1 THEN 1 ELSE 0) + 2 * BitOr(a \div 2, b \div 2)

\* ((rank << 4) | file) as usize, for rank >= 0 and file >= 0
sq(rank, file) == IF file < 16 THEN rank * 16 + file ELSE BitOr(rank * 16, file)

Files == <<"a", "b", "c", "d", "e", "f", "g", "h">>

Ranks == <<"1", "2", "3", "4", "5", "6", "7", "8">>

Digits == <<"0", "1", "2", "3", "4", "5", "6", "7", "8", "9">>

IndexOf(seq, x) == IF \E i \in 1..Len(seq) : seq[i] = x
                   THEN CHOOSE i \in 1..Len(seq) : seq[i] = x
                   ELSE 0

\* the two characters of a square, file letter then rank digit
sq_to_alg(s) ==
    LET r == s \div 16
        f == s % 16
    IN IF r > 7 \/ f > 7 THEN <<"?", "?">> ELSE <<Files[f + 1], Ranks[r + 1]>>

\* s is a sequence of characters; the file letter is lower-cased first
alg_to_sq(s) ==
    IF Len(s) < 2 THEN NoneSq
    ELSE LET lc == CASE s[1] = "A" -> "a" [] s[1] = "B" -> "b" [] s[1] = "C" -> "c"
                     [] s[1] = "D" -> "d" [] s[1] = "E" -> "e" [] s[1] = "F" -> "f"
                     [] s[1] = "G" -> "g" [] s[1] = "H" -> "h" [] OTHER -> s[1]
             f == IndexOf(Files, lc)
             r == IndexOf(Ranks, s[2])
         IN IF f = 0 THEN NoneSq
            ELSE IF r = 0 THEN NoneSq
            ELSE sq(r - 1, f - 1)

\* ---------------------------------------------------------------------
\* struct Board, struct Undo, struct Move
\* ---------------------------------------------------------------------
Undo(mv_from, mv_to, moved_piece, captured, prev_castling, prev_ep, prev_halfmove, promotion) ==
    [mv_from |-> mv_from, mv_to |-> mv_to, moved_piece |-> moved_piece,
     captured |-> captured, prev_castling |-> prev_castling, prev_ep |-> prev_ep,
     prev_halfmove |-> prev_halfmove, promotion |-> promotion]

Move(from, to, promotion) == [from |-> from, to |-> to, promotion |-> promotion]

empty ==
    [cells |-> [s \in 0..(BOARD_SIZE - 1) |-> "Empty"],
     side_white |-> TRUE,
     castling |-> 0,
     ep |-> NoneSq,
     halfmove_clock |-> 0,
     fullmove |-> 1,
     history |-> <<>>,
     redo_stack |-> <<>>]

piece_at(b, s) == b.cells[s]

\* first king of the colour in the scan order r = 0..7, f = 0..7, or NoneSq
find_king(b, white) ==
    LET k == IF white THEN "WK" ELSE "BK"
        found == {s \in 0..119 : s % 16 < 8 /\ b.cells[s] = k}
    IN IF found = {} THEN NoneSq
       ELSE CHOOSE s \in found : \A t \in found : s <= t

HasBit(castling, bitv) == (castling \div bitv) % 2 = 1

\* castling &= !m for every mask m of the set cleared (masks are single bits)
ClearBits(castling, cleared) ==
    LET keep(i) == IF HasBit(castling, i) /\ i \notin cleared THEN i ELSE 0
    IN keep(1) + keep(2) + keep(4) + keep(8)

\* let x = e; body: the value e is handed to the body F
Bind(e, F(_)) == F(e)

Last(seq) == seq[Len(seq)]

Range(seq) == {seq[i] : i \in 1..Len(seq)}

\* the last element is read and left on the stack
PopKeepsLast(seq) == seq

\* Vec::pop: the stack without its last element
Pop(seq) == SubSeq(seq, 1, Len(seq) - 1)

\* ---------------------------------------------------------------------
\* Board::make_move
\* ---------------------------------------------------------------------
\* the rook relocation of a castling move (make_move and redo_move)
CastleRook(cells, moved_piece, from, to) ==
    IF moved_piece = "WK" /\ from = sq(0, 4) /\ to = sq(0, 6)
    THEN [cells EXCEPT ![sq(0, 7)] = "Empty", ![sq(0, 5)] = "WR"]
    ELSE IF moved_piece = "WK" /\ from = sq(0, 4) /\ to = sq(0, 2)
    THEN [cells EXCEPT ![sq(0, 0)] = "Empty", ![sq(0, 3)] = "WR"]
    ELSE IF moved_piece = "BK" /\ from = sq(7, 4) /\ to = sq(7, 6)
    THEN [cells EXCEPT ![sq(7, 7)] = "Empty", ![sq(7, 5)] = "BR"]
    ELSE IF moved_piece = "BK" /\ from = sq(7, 4) /\ to = sq(7, 2)
    THEN [cells EXCEPT ![sq(7, 0)] = "Empty", ![sq(7, 3)] = "BR"]
    ELSE cells

\* the bits cleared by the moves of the kings only
CastlingClearedByKings(moved_piece, from, to) ==
    (IF moved_piece = "WK" THEN {1, 2} ELSE {})
    \cup (IF moved_piece = "BK" THEN {4, 8} ELSE {})

\* the bits of the two white corners taken for each other
CastlingClearedCornersSwapped(moved_piece, from, to) ==
    (IF moved_piece = "WK" THEN {1, 2} ELSE {})
    \cup (IF moved_piece = "BK" THEN {4, 8} ELSE {})
    \cup (IF from = sq(0, 0) \/ to = sq(0, 0) THEN {1} ELSE {})
    \cup (IF from = sq(0, 7) \/ to = sq(0, 7) THEN {2} ELSE {})
    \cup (IF from = sq(7, 0) \/ to = sq(7, 0) THEN {8} ELSE {})
    \cup (IF from = sq(7, 7) \/ to = sq(7, 7) THEN {4} ELSE {})

\* the castling bits a move from `from` to `to` of moved_piece clears
CastlingCleared(moved_piece, from, to) ==
    (IF moved_piece = "WK" THEN {1, 2} ELSE {})
    \cup (IF moved_piece = "BK" THEN {4, 8} ELSE {})
    \cup (IF from = sq(0, 0) \/ to = sq(0, 0) THEN {2} ELSE {})
    \cup (IF from = sq(0, 7) \/ to = sq(0, 7) THEN {1} ELSE {})
    \cup (IF from = sq(7, 0) \/ to = sq(7, 0) THEN {8} ELSE {})
    \cup (IF from = sq(7, 7) \/ to = sq(7, 7) THEN {4} ELSE {})

\* the en passant target set to the square the pawn reaches
NewEpAtDestination(moved_piece, from, to) ==
    IF moved_piece = "BP" /\ (from \div 16) - (to \div 16) = 2 THEN to
    ELSE IF moved_piece = "WP" /\ (to \div 16) - (from \div 16) = 2 THEN to
    ELSE NoneSq

\* the en passant target after a move of moved_piece from `from` to `to`
NewEp(moved_piece, from, to) ==
    IF moved_piece = "BP" /\ (from \div 16) - (to \div 16) = 2 THEN from - 16
    ELSE IF moved_piece = "WP" /\ (to \div 16) - (from \div 16) = 2 THEN from + 16
    ELSE NoneSq

\* is the move an en passant capture by White / by Black on a board whose
\* en passant target is ep
IsWhiteEp(ep, moved_piece, from, to) ==
    ep # NoneSq /\ moved_piece = "WP" /\ to = ep /\ from \div 16 = 4

IsBlackEp(ep, moved_piece, from, to) ==
    ep # NoneSq /\ ~IsWhiteEp(ep, moved_piece, from, to)
    /\ moved_piece = "BP" /\ to = ep /\ from \div 16 = 3

\* the halfmove clock reset by pawn moves only
NewHalfmoveNoCapture(moved_piece, actual_captured, prev_half) ==
    IF moved_piece = "WP" \/ moved_piece = "BP" THEN 0 ELSE prev_half + 1

\* the halfmove clock after a move of moved_piece that took actual_captured
NewHalfmove(moved_piece, actual_captured, prev_half) ==
    IF moved_piece = "WP" \/ moved_piece = "BP" \/ ~is_empty(actual_captured)
    THEN 0 ELSE prev_half + 1

make_move(b, from, to, promotion) ==
    LET captured == b.cells[to]
        prev_cast == b.castling
        prev_ep == b.ep
        prev_half == b.halfmove_clock
        moved_piece == b.cells[from]
        wep == IsWhiteEp(b.ep, moved_piece, from, to)
        bep == IsBlackEp(b.ep, moved_piece, from, to)
        cap_sq == IF wep THEN to - 16 ELSE to + 16
        actual_captured == IF wep \/ bep THEN b.cells[cap_sq] ELSE captured
        c1 == IF wep \/ bep THEN [b.cells EXCEPT ![cap_sq] = "Empty"] ELSE b.cells
        moving == IF promotion # NonePiece THEN promotion ELSE c1[from]
        c2 == [c1 EXCEPT ![from] = "Empty", ![to] = moving]
        c3 == CastleRook(c2, moved_piece, from, to)
    IN [cells |-> c3,
        side_white |-> ~b.side_white,
        castling |-> ClearBits(b.castling, CastlingCleared(moved_piece, from, to)),
        ep |-> NewEp(moved_piece, from, to),
        halfmove_clock |-> NewHalfmove(moved_piece, actual_captured, prev_half),
        fullmove |-> IF ~b.side_white THEN b.fullmove + 1 ELSE b.fullmove,
        history |-> Append(b.history,
                           Undo(from, to, moved_piece, actual_captured,
                                prev_cast, prev_ep, prev_half, promotion)),
        redo_stack |-> <<>>]

\* ---------------------------------------------------------------------
\* Board::undo_move
\* ---------------------------------------------------------------------
\* self.fullmove.saturating_sub(1).max(1)
SaturatingDec(n) == IF n - 1 < 1 THEN 1 ELSE n - 1

\* the rook put back on its corner when a castling move is undone
UncastleRook(cells, moved_piece, from, to) ==
    IF moved_piece = "WK" /\ from = sq(0, 4) /\ to = sq(0, 6)
    THEN [cells EXCEPT ![sq(0, 5)] = "Empty", ![sq(0, 7)] = "WR"]
    ELSE IF moved_piece = "WK" /\ from = sq(0, 4) /\ to = sq(0, 2)
    THEN [cells EXCEPT ![sq(0, 3)] = "Empty", ![sq(0, 0)] = "WR"]
    ELSE IF moved_piece = "BK" /\ from = sq(7, 4) /\ to = sq(7, 6)
    THEN [cells EXCEPT ![sq(7, 5)] = "Empty", ![sq(7, 7)] = "BR"]
    ELSE IF moved_piece = "BK" /\ from = sq(7, 4) /\ to = sq(7, 2)
    THEN [cells EXCEPT ![sq(7, 3)] = "Empty", ![sq(7, 0)] = "BR"]
    ELSE cells

undo_move(b) ==
    IF b.history = <<>> THEN b
    ELSE
    LET u == Last(b.history)
        redo_entry == Undo(u.mv_from, u.mv_to, u.moved_piece, u.captured,
                           b.castling, b.ep, b.halfmove_clock, u.promotion)
        side == ~b.side_white
        c1 == [b.cells EXCEPT ![u.mv_from] = u.moved_piece, ![u.mv_to] = u.captured]
        wep == IsWhiteEp(u.prev_ep, u.moved_piece, u.mv_from, u.mv_to)
        bep == IsBlackEp(u.prev_ep, u.moved_piece, u.mv_from, u.mv_to)
        c2 == IF wep THEN [c1 EXCEPT ![u.mv_to - 16] = "BP", ![u.mv_to] = "Empty"]
              ELSE IF bep THEN [c1 EXCEPT ![u.mv_to + 16] = "WP", ![u.mv_to] = "Empty"]
              ELSE c1
        c3 == UncastleRook(c2, u.moved_piece, u.mv_from, u.mv_to)
    IN [cells |-> c3,
        side_white |-> side,
        castling |-> u.prev_castling,
        ep |-> u.prev_ep,
        halfmove_clock |-> u.prev_halfmove,
        fullmove |-> IF side THEN SaturatingDec(b.fullmove) ELSE b.fullmove,
        history |-> Pop(b.history),
        redo_stack |-> Append(b.redo_stack, redo_entry)]

\* ---------------------------------------------------------------------
\* Board::redo_move
\* ---------------------------------------------------------------------
redo_move(b) ==
    IF b.redo_stack = <<>> THEN b
    ELSE
    LET u == Last(b.redo_stack)
        moved_piece == b.cells[u.mv_from]
        captured == b.cells[u.mv_to]
        wep == IsWhiteEp(b.ep, moved_piece, u.mv_from, u.mv_to)
        bep == IsBlackEp(b.ep, moved_piece, u.mv_from, u.mv_to)
        cap_sq == IF wep THEN u.mv_to - 16 ELSE u.mv_to + 16
        c1 == IF wep \/ bep THEN [b.cells EXCEPT ![cap_sq] = "Empty"] ELSE b.cells
        moving == IF u.promotion # NonePiece THEN u.promotion ELSE c1[u.mv_from]
        c2 == [c1 EXCEPT ![u.mv_from] = "Empty", ![u.mv_to] = moving]
        c3 == CastleRook(c2, moved_piece, u.mv_from, u.mv_to)
        side == ~b.side_white
    IN [cells |-> c3,
        side_white |-> side,
        castling |-> u.prev_castling,
        ep |-> u.prev_ep,
        halfmove_clock |-> u.prev_halfmove,
        fullmove |-> IF ~side THEN b.fullmove + 1 ELSE b.fullmove,
        history |-> Append(b.history,
                           Undo(u.mv_from, u.mv_to, moved_piece, captured,
                                b.castling, b.ep, b.halfmove_clock, u.promotion)),
        redo_stack |-> Pop(b.redo_stack)]

\* Board::make_move_clone
make_move_clone(b, from, to, promotion) == make_move(b, from, to, promotion)

\* ---------------------------------------------------------------------
\* Attack detection
\* ---------------------------------------------------------------------
KNIGHT_DELTAS == <<33, 31, 18, 14, 0 - 33, 0 - 31, 0 - 18, 0 - 14>>

KING_DELTAS == <<16, 1, 0 - 16, 0 - 1, 17, 15, 0 - 15, 0 - 17>>

ROOK_DELTAS == <<16, 1, 0 - 16, 0 - 1>>

BISHOP_DELTAS == <<17, 15, 0 - 17, 0 - 15>>

\* the first non-empty piece met from a, stepping by d, "Empty" when the
\* ray leaves the board first
RECURSIVE FirstOnRay(_, _, _)
FirstOnRay(cells, a, d) ==
    IF ~on_board(a) THEN "Empty"
    ELSE IF cells[a] # "Empty" THEN cells[a]
    ELSE FirstOnRay(cells, a + d, d)

\* the pawn squares looked up in the pawns' forward direction instead of behind
IsSquareAttackedPawnsAhead(board, s, by_white) ==
    LET cells == board.cells
        pawn == IF by_white THEN "WP" ELSE "BP"
        knight == IF by_white THEN "WN" ELSE "BN"
        bishop == IF by_white THEN "WB" ELSE "BB"
        rook == IF by_white THEN "WR" ELSE "BR"
        queen == IF by_white THEN "WQ" ELSE "BQ"
        king == IF by_white THEN "WK" ELSE "BK"
        attacks == IF by_white THEN {s + 17, s + 15} ELSE {s - 17, s - 15}
    IN \/ \E a \in attacks : on_board(a) /\ cells[a] = pawn
       \/ \E i \in 1..8 : on_board(s + KNIGHT_DELTAS[i]) /\ cells[s + KNIGHT_DELTAS[i]] = knight
       \/ \E i \in 1..4 : FirstOnRay(cells, s + ROOK_DELTAS[i], ROOK_DELTAS[i]) \in {rook, queen}
       \/ \E i \in 1..4 : FirstOnRay(cells, s + BISHOP_DELTAS[i], BISHOP_DELTAS[i]) \in {bishop, queen}
       \/ \E i \in 1..8 : on_board(s + KING_DELTAS[i]) /\ cells[s + KING_DELTAS[i]] = king

is_square_attacked(board, s, by_white) ==
    LET cells == board.cells
        pawn == IF by_white THEN "WP" ELSE "BP"
        knight == IF by_white THEN "WN" ELSE "BN"
        bishop == IF by_white THEN "WB" ELSE "BB"
        rook == IF by_white THEN "WR" ELSE "BR"
        queen == IF by_white THEN "WQ" ELSE "BQ"
        king == IF by_white THEN "WK" ELSE "BK"
        attacks == IF by_white THEN {s - 17, s - 15} ELSE {s + 17, s + 15}
    IN \/ \E a \in attacks : on_board(a) /\ cells[a] = pawn
       \/ \E i \in 1..8 : on_board(s + KNIGHT_DELTAS[i]) /\ cells[s + KNIGHT_DELTAS[i]] = knight
       \/ \E i \in 1..4 : FirstOnRay(cells, s + ROOK_DELTAS[i], ROOK_DELTAS[i]) \in {rook, queen}
       \/ \E i \in 1..4 : FirstOnRay(cells, s + BISHOP_DELTAS[i], BISHOP_DELTAS[i]) \in {bishop, queen}
       \/ \E i \in 1..8 : on_board(s + KING_DELTAS[i]) /\ cells[s + KING_DELTAS[i]] = king

\* a board without the king asked for counts as not attacked
KingAttackedIfPresent(board, white_king) ==
    LET kpos == find_king(board, white_king)
    IN IF kpos # NoneSq THEN is_square_attacked(board, kpos, ~white_king) ELSE FALSE

is_king_attacked(board, white_king) ==
    LET kpos == find_king(board, white_king)
    IN IF kpos # NoneSq THEN is_square_attacked(board, kpos, ~white_king) ELSE TRUE

\* ---------------------------------------------------------------------
\* Move generation
\* ---------------------------------------------------------------------
\* is p a piece of the side that does not move
IsEnemy(side_white, p) == (side_white /\ is_black(p)) \/ (~side_white /\ is_white(p))

RECURSIVE LeaperFrom(_, _, _, _)
LeaperFrom(board, s, deltas, i) ==
    IF i > Len(deltas) THEN <<>>
    ELSE LET ns == s + deltas[i]
             rest == LeaperFrom(board, s, deltas, i + 1)
         IN IF ~on_board(ns) THEN rest
            ELSE IF is_empty(board.cells[ns]) \/ IsEnemy(board.side_white, board.cells[ns])
            THEN <<Move(s, ns, NonePiece)>> \o rest
            ELSE rest

gen_leaper_moves(board, s, deltas) == LeaperFrom(board, s, deltas, 1)

\* the moves of one ray of a slider, from ns on
RECURSIVE SliderRay(_, _, _, _)
SliderRay(board, s, d, ns) ==
    IF ~on_board(ns) THEN <<>>
    ELSE IF is_empty(board.cells[ns])
    THEN <<Move(s, ns, NonePiece)>> \o SliderRay(board, s, d, ns + d)
    ELSE IF IsEnemy(board.side_white, board.cells[ns]) THEN <<Move(s, ns, NonePiece)>>
    ELSE <<>>

RECURSIVE SliderFrom(_, _, _, _)
SliderFrom(board, s, deltas, i) ==
    IF i > Len(deltas) THEN <<>>
    ELSE SliderRay(board, s, deltas[i], s + deltas[i]) \o SliderFrom(board, s, deltas, i + 1)

gen_slider_moves(board, s, deltas) == SliderFrom(board, s, deltas, 1)

\* the four promotion entries of a pawn move, in the order Q, R, B, N
Promotions(s, to, white) ==
    <<Move(s, to, IF white THEN "WQ" ELSE "BQ"),
      Move(s, to, IF white THEN "WR" ELSE "BR"),
      Move(s, to, IF white THEN "WB" ELSE "BB"),
      Move(s, to, IF white THEN "WN" ELSE "BN")>>

Abs(x) == IF x < 0 THEN 0 - x ELSE x

gen_pawn_moves(board, s, white) ==
    LET dir == IF white THEN 16 ELSE 0 - 16
        start_rank == IF white THEN 1 ELSE 6
        r == s \div 16
        one == s + dir
        two == s + dir * 2
        last_rank(t) == (white /\ t \div 16 = 7) \/ (~white /\ t \div 16 = 0)
        push == IF on_board(one) /\ is_empty(board.cells[one])
                THEN IF last_rank(one) THEN Promotions(s, one, white)
                     ELSE <<Move(s, one, NonePiece)>>
                          \o (IF r = start_rank /\ on_board(two) /\ is_empty(board.cells[two])
                              THEN <<Move(s, two, NonePiece)>> ELSE <<>>)
                ELSE <<>>
        capture(ns) == IF on_board(ns) /\ ~is_empty(board.cells[ns])
                          /\ ((white /\ is_black(board.cells[ns]))
                              \/ (~white /\ is_white(board.cells[ns])))
                       THEN IF last_rank(ns) THEN Promotions(s, ns, white)
                            ELSE <<Move(s, ns, NonePiece)>>
                       ELSE <<>>
        ep == board.ep
        en_passant ==
            IF ep # NoneSq
               /\ (ep = s + 15 \/ ep = s + 17 \/ ep = s - 15 \/ ep = s - 17)
               /\ on_board(ep)
               /\ ((white /\ ep \div 16 = 5 /\ s \div 16 = 4)
                   \/ (~white /\ ep \div 16 = 2 /\ s \div 16 = 3))
               /\ Abs((ep % 16) - (s % 16)) = 1
            THEN <<Move(s, ep, NonePiece)>> ELSE <<>>
    IN push \o capture(s + dir + 1) \o capture(s + dir - 1) \o en_passant

gen_castling(board) ==
    LET free(r, f) == is_empty(board.cells[sq(r, f)])
    IN IF board.side_white
       THEN (IF HasBit(board.castling, 1) /\ free(0, 5) /\ free(0, 6)
             THEN <<Move(sq(0, 4), sq(0, 6), NonePiece)>> ELSE <<>>)
            \o (IF HasBit(board.castling, 2) /\ free(0, 3) /\ free(0, 2) /\ free(0, 1)
                THEN <<Move(sq(0, 4), sq(0, 2), NonePiece)>> ELSE <<>>)
       ELSE (IF HasBit(board.castling, 4) /\ free(7, 5) /\ free(7, 6)
             THEN <<Move(sq(7, 4), sq(7, 6), NonePiece)>> ELSE <<>>)
            \o (IF HasBit(board.castling, 8) /\ free(7, 3) /\ free(7, 2) /\ free(7, 1)
                THEN <<Move(sq(7, 4), sq(7, 2), NonePiece)>> ELSE <<>>)

\* the pseudo-legal moves of the piece on s, when it belongs to the side to move
PieceMoves(board, s) ==
    LET p == board.cells[s]
    IN IF is_empty(p) \/ (board.side_white /\ ~is_white(p)) \/ (~board.side_white /\ ~is_black(p))
       THEN <<>>
       ELSE CASE p = "WP" -> gen_pawn_moves(board, s, TRUE)
              [] p = "BP" -> gen_pawn_moves(board, s, FALSE)
              [] p \in {"WN", "BN"} -> gen_leaper_moves(board, s, KNIGHT_DELTAS)
              [] p \in {"WB", "BB"} -> gen_slider_moves(board, s, BISHOP_DELTAS)
              [] p \in {"WR", "BR"} -> gen_slider_moves(board, s, ROOK_DELTAS)
              [] p \in {"WQ", "BQ"} -> gen_slider_moves(board, s, ROOK_DELTAS)
                                       \o gen_slider_moves(board, s, BISHOP_DELTAS)
              [] p \in {"WK", "BK"} -> gen_leaper_moves(board, s, KING_DELTAS)
              [] OTHER -> <<>>

\* the pseudo-legal moves of the lo-th to the hi-th square of the scan order
\* r = 0..7, f = 0..7, in that order
RECURSIVE PseudoRange(_, _, _)
PseudoRange(board, lo, hi) ==
    IF lo = hi THEN PieceMoves(board, sq(lo \div 8, lo % 8))
    ELSE PseudoRange(board, lo, (lo + hi) \div 2) \o PseudoRange(board, (lo + hi) \div 2 + 1, hi)

\* the test of the legality filter: the king looked up is the one of colour
\* !board.side_white on the board after the move
PassesFilter(board, m) ==
    ~is_king_attacked(make_move_clone(board, m.from, m.to, m.promotion), ~board.side_white)

gen_moves(board) ==
    LET moves == PseudoRange(board, 0, 63) \o gen_castling(board)
        ok(m) == PassesFilter(board, m)
    IN SelectSeq(moves, ok)

\* ---------------------------------------------------------------------
\* Board::from_fen.  A FEN is the sequence of its whitespace-separated
\* parts, each part the sequence of its characters.
\* ---------------------------------------------------------------------
is_digit(ch) == IndexOf(Digits, ch) # 0

to_digit(ch) == IndexOf(Digits, ch) - 1

\* str.split(sep): the pieces of chars between the separators
RECURSIVE SplitFrom(_, _, _, _)
SplitFrom(chars, sep, i, cur) ==
    IF i > Len(chars) THEN <<cur>>
    ELSE IF chars[i] = sep THEN <<cur>> \o SplitFrom(chars, sep, i + 1, <<>>)
    ELSE SplitFrom(chars, sep, i + 1, Append(cur, chars[i]))

Split(chars, sep) == SplitFrom(chars, sep, 1, <<>>)

\* the inner loop of from_fen over the characters of one rank string; the
\* result is the cells and whether an index was out of the 128 slots (a panic)
RECURSIVE PlaceRank(_, _, _, _, _)
PlaceRank(acc, rank, chars, i, file) ==
    IF i > Len(chars) \/ acc.panic THEN acc
    ELSE IF is_digit(chars[i])
    THEN PlaceRank(acc, rank, chars, i + 1, file + to_digit(chars[i]))
    ELSE IF rank < 0 \/ sq(rank, file) >= BOARD_SIZE
    THEN [acc EXCEPT !.panic = TRUE]
    ELSE PlaceRank([acc EXCEPT !.cells[sq(rank, file)] = from_char(chars[i])],
                   rank, chars, i + 1, file + 1)

\* the outer loop of from_fen over the rank strings, r counted from 0
RECURSIVE PlaceRanks(_, _, _)
PlaceRanks(acc, ranks, r) ==
    IF r >= Len(ranks) \/ acc.panic THEN acc
    ELSE PlaceRanks(PlaceRank(acc, 7 - r, ranks[r + 1], 1, 0), ranks, r + 1)

\* str::parse::<u32>().unwrap_or(default), for numbers of at most nine digits
RECURSIVE ParseDigits(_, _, _)
ParseDigits(chars, i, acc) ==
    IF i > Len(chars) THEN acc
    ELSE ParseDigits(chars, i + 1, acc * 10 + to_digit(chars[i]))

parse_or(chars, default) ==
    LET body == IF chars # <<>> /\ chars[1] = "+" THEN Tail(chars) ELSE chars
    IN IF body # <<>> /\ Len(body) <= 9 /\ \A i \in 1..Len(body) : is_digit(body[i])
       THEN ParseDigits(body, 1, 0)
       ELSE default

Contains(chars, c) == \E i \in 1..Len(chars) : chars[i] = c

\* the board from_fen returns and whether it panics before returning
from_fen_run(parts) ==
    IF parts = <<>> THEN [panic |-> FALSE, board |-> empty]
    ELSE
    LET placed == PlaceRanks([cells |-> empty.cells, panic |-> FALSE], Split(parts[1], "/"), 0)
        c == IF Len(parts) > 2 THEN parts[3] ELSE <<>>
    IN [panic |-> placed.panic,
        board |->
          [cells |-> placed.cells,
           side_white |-> IF Len(parts) > 1 THEN parts[2] = <<"w">> ELSE TRUE,
           castling |-> (IF Contains(c, "K") THEN 1 ELSE 0) + (IF Contains(c, "Q") THEN 2 ELSE 0)
                        + (IF Contains(c, "k") THEN 4 ELSE 0) + (IF Contains(c, "q") THEN 8 ELSE 0),
           ep |-> IF Len(parts) > 3 /\ parts[4] # <<"-">> THEN alg_to_sq(parts[4]) ELSE NoneSq,
           halfmove_clock |-> IF Len(parts) > 4 THEN parse_or(parts[5], 0) ELSE 0,
           fullmove |-> IF Len(parts) > 5 THEN parse_or(parts[6], 1) ELSE 1,
           history |-> <<>>,
           redo_stack |-> <<>>]]

from_fen(parts) == from_fen_run(parts).board

\* ---------------------------------------------------------------------
\* The positions the model starts from
\* ---------------------------------------------------------------------
\* rnbqkbnr/pppppppp/8/8/8/8/PPPPPPPP/RNBQKBNR w KQkq - 0 1
\* the standard start position (engine.rs:1340, integration.rs:27)
FEN_START ==
    <<<<"r", "n", "b", "q", "k", "b", "n", "r", "/", "p", "p", "p", "p", "p", "p", "p", "p", "/", "8", "/", "8", "/", "8", "/", "8", "/", "P", "P", "P", "P", "P", "P", "P", "P", "/", "R", "N", "B", "Q", "K", "B", "N", "R">>,
      <<"w">>,
      <<"K", "Q", "k", "q">>,
      <<"-">>,
      <<"0">>,
      <<"1">>>>

\* 4kr2/8/8/8/8/8/8/4K2R w K - 0 1
\* White may castle king side, f1 is attacked by the rook on f8
FEN_CASTLE ==
    <<<<"4", "k", "r", "2", "/", "8", "/", "8", "/", "8", "/", "8", "/", "8", "/", "8", "/", "4", "K", "2", "R">>,
      <<"w">>,
      <<"K">>,
      <<"-">>,
      <<"0">>,
      <<"1">>>>

\* 8/P7/8/8/8/8/8/k6K w - - 0 1
\* a pawn one step from promotion
FEN_PROMO ==
    <<<<"8", "/", "P", "7", "/", "8", "/", "8", "/", "8", "/", "8", "/", "8", "/", "k", "6", "K">>,
      <<"w">>,
      <<"-">>,
      <<"-">>,
      <<"0">>,
      <<"1">>>>

\* 4k3/8/8/8/3p4/8/4P3/4K3 w - - 0 2
\* e2e4 allows the en passant capture d4xe3
FEN_EP ==
    <<<<"4", "k", "3", "/", "8", "/", "8", "/", "8", "/", "3", "p", "4", "/", "8", "/", "4", "P", "3", "/", "4", "K", "3">>,
      <<"w">>,
      <<"-">>,
      <<"-">>,
      <<"0">>,
      <<"2">>>>

\* 4k3/8/8/8/8/8/4r3/4K3 w - - 4 2
\* the white king is attacked by the rook on e2
FEN_CHECK ==
    <<<<"4", "k", "3", "/", "8", "/", "8", "/", "8", "/", "8", "/", "8", "/", "4", "r", "3", "/", "4", "K", "3">>,
      <<"w">>,
      <<"-">>,
      <<"-">>,
      <<"4">>,
      <<"2">>>>

\* 8/8/8/8/8/8/2k5/K7 w - - 0 1
\* gen_moves returns the single move a1a2
FEN_ONE_MOVE ==
    <<<<"8", "/", "8", "/", "8", "/", "8", "/", "8", "/", "8", "/", "2", "k", "5", "/", "K", "7">>,
      <<"w">>,
      <<"-">>,
      <<"-">>,
      <<"0">>,
      <<"1">>>>

\* 4k3/8/8/8/8/8/3Kr3/8 b - - 5 2
\* FEN_CHECK after e1d2, a move of gen_moves: the rook may take the king
FEN_EN_PRISE ==
    <<<<"4", "k", "3", "/", "8", "/", "8", "/", "8", "/", "8", "/", "8", "/", "3", "K", "r", "3", "/", "8">>,
      <<"b">>,
      <<"-">>,
      <<"-">>,
      <<"5">>,
      <<"2">>>>

\* k7/p1K5/P7/8/4B3/8/8/8 b - - 0 1
\* Black is checkmated
FEN_CHECKMATED ==
    <<<<"k", "7", "/", "p", "1", "K", "5", "/", "P", "7", "/", "8", "/", "4", "B", "3", "/", "8", "/", "8", "/", "8">>,
      <<"b">>,
      <<"-">>,
      <<"-">>,
      <<"0">>,
      <<"1">>>>

\* k7/p1K5/P7/8/8/8/8/8 b - - 0 1
\* Black is stalemated
FEN_STALEMATED ==
    <<<<"k", "7", "/", "p", "1", "K", "5", "/", "P", "7", "/", "8", "/", "8", "/", "8", "/", "8", "/", "8">>,
      <<"b">>,
      <<"-">>,
      <<"-">>,
      <<"0">>,
      <<"1">>>>

\* k7/8/1K6/8/8/8/8/7R w - - 0 1
\* h1h8 checkmates
FEN_MATE_IN_ONE ==
    <<<<"k", "7", "/", "8", "/", "1", "K", "6", "/", "8", "/", "8", "/", "8", "/", "8", "/", "7", "R">>,
      <<"w">>,
      <<"-">>,
      <<"-">>,
      <<"0">>,
      <<"1">>>>

\* 8/8/8/8/8/p7/2k5/K7 w - - 0 1
\* FEN_ONE_MOVE with a black pawn on a3, which the king takes after a1a2
FEN_PAWN_EN_PRISE ==
    <<<<"8", "/", "8", "/", "8", "/", "8", "/", "8", "/", "p", "7", "/", "2", "k", "5", "/", "K", "7">>,
      <<"w">>,
      <<"-">>,
      <<"-">>,
      <<"0">>,
      <<"1">>>>

\* K6k/8/8/8/8/8/p7/8 b - - 0 1
\* Black promotes on a1
FEN_BLACK_PROMO ==
    <<<<"K", "6", "k", "/", "8", "/", "8", "/", "8", "/", "8", "/", "8", "/", "p", "7", "/", "8">>,
      <<"b">>,
      <<"-">>,
      <<"-">>,
      <<"0">>,
      <<"1">>>>

\* 4k3/8/8/8/3pP3/8/8/4K3 b - e3 0 1
\* Black may capture en passant on e3
FEN_EP_READY ==
    <<<<"4", "k", "3", "/", "8", "/", "8", "/", "8", "/", "3", "p", "P", "3", "/", "8", "/", "8", "/", "4", "K", "3">>,
      <<"b">>,
      <<"-">>,
      <<"e", "3">>,
      <<"0">>,
      <<"1">>>>

\* r3k2r/8/8/8/7n/8/P7/R3K2R w KQkq - 5 1
\* all four castling rights; a pawn to push, a knight to take
FEN_ALL_RIGHTS ==
    <<<<"r", "3", "k", "2", "r", "/", "8", "/", "8", "/", "8", "/", "7", "n", "/", "8", "/", "P", "7", "/", "R", "3", "K", "2", "R">>,
      <<"w">>,
      <<"K", "Q", "k", "q">>,
      <<"-">>,
      <<"5">>,
      <<"1">>>>

StartBoard == from_fen(FEN_START)

InitFens ==
    {FEN_START, FEN_CASTLE, FEN_PROMO, FEN_EP, FEN_CHECK, FEN_ONE_MOVE, FEN_EN_PRISE}

InitBoards == {from_fen(f) : f \in InitFens}

\* the board after the moves of ms, each <<from, to>>, made in turn on b
RECURSIVE MakeMoves(_, _)
MakeMoves(b, ms) ==
    IF ms = <<>> THEN b
    ELSE MakeMoves(make_move(b, ms[1][1], ms[1][2], NonePiece), Tail(ms))

\* one position reached in two orders: g1f3 g8f6 b1c3 b8c6, and
\* b1c3 b8c6 g1f3 g8f6
TransposedBoards ==
    {MakeMoves(StartBoard, <<<<6, 37>>, <<118, 85>>, <<1, 34>>, <<113, 82>>>>),
     MakeMoves(StartBoard, <<<<1, 34>>, <<113, 82>>, <<6, 37>>, <<118, 85>>>>)}

\* ---------------------------------------------------------------------
\* 64-bit words (zobrist.rs, transposition.rs): the set of the one bits
\* ---------------------------------------------------------------------
Xor(a, b) == (a \ b) \cup (b \ a)

Shr(a, n) == {i - n : i \in {j \in a : j >= n}}

Shl(a, n) == {i + n : i \in {j \in a : j + n <= 63}}

And(a, b) == a \cap b

RECURSIVE Pow2(_)
Pow2(n) == IF n = 0 THEN 1 ELSE 2 * Pow2(n - 1)

\* the word of a natural number below 2^31
Word(n) == {i \in 0..30 : (n \div Pow2(i)) % 2 = 1}

\* ---------------------------------------------------------------------
\* struct Zobrist
\* ---------------------------------------------------------------------
\* rng.gen(): rand's StdRng is not part of the repository; a xorshift64
\* generator, seeded with the seed, draws the words in its place.  The key
\* values differ from the program's, the order of the draws is the same.
NextWord(x) ==
    LET a == Xor(x, Shl(x, 13))
        b == Xor(a, Shr(a, 7))
    IN Xor(b, Shl(b, 17))

\* the next n words after x, n <= 32
RECURSIVE DrawBlock(_, _)
DrawBlock(x, n) == IF n = 0 THEN <<>> ELSE <<NextWord(x)>> \o DrawBlock(NextWord(x), n - 1)

\* the next n words after x, drawn in blocks of 32
RECURSIVE Draw(_, _)
Draw(x, n) ==
    IF n <= 32 THEN DrawBlock(x, n)
    ELSE LET block == DrawBlock(x, 32)
         IN block \o Draw(block[32], n - 32)

with_seed(seed) ==
    LET words == Draw(Word(seed), 64 * 12 + 16 + 8 + 64 + 1)
        valid(s) == (s \div 8) % 2 = 0
        nth(s) == (s \div 16) * 8 + (s % 16)
    IN [pieces |-> [s \in 0..(BOARD_SIZE - 1) |->
                      [pc \in 0..11 |-> IF valid(s) THEN words[nth(s) * 12 + pc + 1] ELSE {}]],
        castling |-> [i \in 0..15 |-> words[64 * 12 + i + 1]],
        ep_file |-> [f \in 0..7 |-> words[64 * 12 + 16 + f + 1]],
        ep_square |-> [s \in 0..(BOARD_SIZE - 1) |->
                         IF valid(s) THEN words[64 * 12 + 16 + 8 + nth(s) + 1] ELSE {}],
        side |-> words[64 * 12 + 16 + 8 + 64 + 1],
        seed |-> seed]

\* Zobrist::new()
ZobristNew == with_seed(2024)

\* Option<usize>: the index 0..11 of a piece, -1 for None
piece_index(piece) ==
    CASE piece = "WP" -> 0 [] piece = "WN" -> 1 [] piece = "WB" -> 2
      [] piece = "WR" -> 3 [] piece = "WQ" -> 4 [] piece = "WK" -> 5
      [] piece = "BP" -> 6 [] piece = "BN" -> 7 [] piece = "BB" -> 8
      [] piece = "BR" -> 9 [] piece = "BQ" -> 10 [] piece = "BK" -> 11
      [] OTHER -> 0 - 1

\* the xor of pieces[sq][idx] over the lo-th to the hi-th valid square
RECURSIVE HashPieces(_, _, _, _)
HashPieces(z, cells, lo, hi) ==
    IF lo = hi
    THEN LET s == sq(lo \div 8, lo % 8)
             idx == piece_index(cells[s])
         IN IF idx >= 0 THEN z.pieces[s][idx] ELSE {}
    ELSE Xor(HashPieces(z, cells, lo, (lo + hi) \div 2),
             HashPieces(z, cells, (lo + hi) \div 2 + 1, hi))

\* hash_board that mixes the fullmove number into the key
HashBoardWithFullmove(z, b) ==
    LET h1 == HashPieces(z, b.cells, 0, 63)
        h2 == Xor(h1, z.castling[b.castling])
        h3 == IF b.ep # NoneSq /\ b.ep % 16 < 8 THEN Xor(h2, z.ep_file[b.ep % 16]) ELSE h2
        h4 == Xor(h3, z.ep_file[b.fullmove % 8])
    IN IF b.side_white THEN Xor(h4, z.side) ELSE h4

hash_board(z, b) ==
    LET h1 == HashPieces(z, b.cells, 0, 63)
        h2 == Xor(h1, z.castling[b.castling])
        h3 == IF b.ep # NoneSq /\ b.ep % 16 < 8 THEN Xor(h2, z.ep_file[b.ep % 16]) ELSE h2
    IN IF b.side_white THEN Xor(h3, z.side) ELSE h3

\* captured is NonePiece for None
update_move(z, current_hash, from, to, piece, captured) ==
    LET idx == piece_index(piece)
        cap == piece_index(captured)
        h1 == IF idx >= 0 THEN Xor(current_hash, z.pieces[from][idx]) ELSE current_hash
        h2 == IF captured # NonePiece /\ cap >= 0 THEN Xor(h1, z.pieces[to][cap]) ELSE h1
        h3 == IF idx >= 0 THEN Xor(h2, z.pieces[to][idx]) ELSE h2
    IN Xor(h3, z.side)

update_castling(z, current_hash, old_rights, new_rights) ==
    Xor(Xor(current_hash, z.castling[old_rights]), z.castling[new_rights])

update_ep(z, current_hash, old_ep, new_ep) ==
    LET h1 == IF old_ep # NoneSq /\ old_ep % 16 < 8
              THEN Xor(current_hash, z.ep_file[old_ep % 16]) ELSE current_hash
    IN IF new_ep # NoneSq /\ new_ep % 16 < 8 THEN Xor(h1, z.ep_file[new_ep % 16]) ELSE h1

\* ---------------------------------------------------------------------
\* transposition.rs: PackedMove, TTEntry, TranspositionTable
\* ---------------------------------------------------------------------
PackedNone == 0

\* (from & 0x7F) | ((to & 0x7F) << 7) | ((promo_id & 0x0F) << 14)
pack(from, to, promo_id) == (from % 128) + (to % 128) * 128 + (promo_id % 16) * 16384

unpack(raw) == [from |-> raw % 128, to |-> (raw \div 128) % 128, promo |-> (raw \div 16384) % 16]

TTEntry(key, value, depth, node, age, best) ==
    [key |-> key, value |-> value, depth |-> depth, node |-> node, age |-> age, best |-> best]

TTEmpty == TTEntry({}, 0, 0 - 1, "Exact", 0, PackedNone)

\* the smallest power of two that is >= buckets
RECURSIVE RoundUp(_, _)
RoundUp(count, buckets) == IF count < buckets THEN RoundUp(count * 2, buckets) ELSE count

\* the buckets hold the entries written so far; a slot that is not in the
\* domain holds TTEntry::empty()
new_buckets(buckets) ==
    LET count == RoundUp(1, buckets)
    IN [buckets |-> <<>>, count |-> count, mask |-> Word(count - 1), age |-> 1]

\* size_of::<TTEntry>(): u64 + i32 + i32 + u32 + u8 + u8, aligned to 8
SizeOfTTEntry == 24

\* the number of bits of x without its leading zeros
RECURSIVE BitLength(_)
BitLength(x) == IF x = 0 THEN 0 ELSE 1 + BitLength(x \div 2)

\* (x as u32).leading_zeros(), for x below 2^31, which `as u32` keeps
leading_zeros(x) == 32 - BitLength(x)

\* new_strict_size_mb up to its last line: the shift pow of
\* `1usize << pow`, the bucket count handed to new_buckets, on a build whose
\* usize has usize_bits bits
StrictSizeShift(size_mb, usize_bits) ==
    LET bytes_per_entry == IF 24 > SizeOfTTEntry THEN 24 ELSE SizeOfTTEntry
        total_bytes == size_mb * 1024 * 1024
        buckets == IF total_bytes \div bytes_per_entry = 0 THEN 1
                   ELSE total_bytes \div bytes_per_entry
    IN usize_bits - leading_zeros(buckets) - 1

index_of(tt, key) == And(Xor(Xor(key, Shr(key, 32)), Shr(key, 16)), tt.mask)

Slot(tt, idx) == IF idx \in DOMAIN tt.buckets THEN tt.buckets[idx] ELSE TTEmpty

\* self.age.wrapping_add(1)
new_search(tt) == [tt EXCEPT !.age = (tt.age + 1) % 256]

\* probe that asks for a stored depth greater than the depth wanted
ProbeStrictDepth(tt, key, depth, alpha, beta) ==
    LET entry == Slot(tt, index_of(tt, key))
        usable == [kind |-> "Usable", value |-> entry.value, best |-> entry.best, entry |-> entry]
        found == [kind |-> "Found", value |-> entry.value, best |-> entry.best, entry |-> entry]
    IN IF entry.depth < 0 \/ entry.key # key
       THEN [kind |-> "Miss", value |-> 0, best |-> PackedNone, entry |-> TTEmpty]
       ELSE IF entry.depth > depth
       THEN CASE entry.node = "Exact" -> usable
              [] entry.node = "LowerBound" -> IF entry.value >= beta THEN usable ELSE found
              [] entry.node = "UpperBound" -> IF entry.value <= alpha THEN usable ELSE found
       ELSE found

\* probe that tests a lower bound against alpha
ProbeLowerAgainstAlpha(tt, key, depth, alpha, beta) ==
    LET entry == Slot(tt, index_of(tt, key))
        usable == [kind |-> "Usable", value |-> entry.value, best |-> entry.best, entry |-> entry]
        found == [kind |-> "Found", value |-> entry.value, best |-> entry.best, entry |-> entry]
    IN IF entry.depth < 0 \/ entry.key # key
       THEN [kind |-> "Miss", value |-> 0, best |-> PackedNone, entry |-> TTEmpty]
       ELSE IF entry.depth >= depth
       THEN CASE entry.node = "Exact" -> usable
              [] entry.node = "LowerBound" -> IF entry.value >= alpha THEN usable ELSE found
              [] entry.node = "UpperBound" -> IF entry.value <= alpha THEN usable ELSE found
       ELSE found

probe(tt, key, depth, alpha, beta) ==
    LET entry == Slot(tt, index_of(tt, key))
        usable == [kind |-> "Usable", value |-> entry.value, best |-> entry.best, entry |-> entry]
        found == [kind |-> "Found", value |-> entry.value, best |-> entry.best, entry |-> entry]
    IN IF entry.depth < 0 \/ entry.key # key
       THEN [kind |-> "Miss", value |-> 0, best |-> PackedNone, entry |-> TTEmpty]
       ELSE IF entry.depth >= depth
       THEN CASE entry.node = "Exact" -> usable
              [] entry.node = "LowerBound" -> IF entry.value >= beta THEN usable ELSE found
              [] entry.node = "UpperBound" -> IF entry.value <= alpha THEN usable ELSE found
       ELSE found

\* the decision of store with the depth comparison turned round
ReplaceShallower(tt, old, new_entry) ==
    IF old.depth < 0 THEN TRUE
    ELSE IF new_entry.depth < old.depth THEN TRUE
    ELSE IF new_entry.depth = old.depth
    THEN IF new_entry.age # old.age THEN TRUE
         ELSE \/ new_entry.node = "Exact"
              \/ (new_entry.node = "LowerBound" /\ old.node = "UpperBound")
    ELSE old.age # tt.age

\* the decision of store in which, at equal depth and age, only Exact replaces
ReplaceExactOnly(tt, old, new_entry) ==
    IF old.depth < 0 THEN TRUE
    ELSE IF new_entry.depth > old.depth THEN TRUE
    ELSE IF new_entry.depth = old.depth
    THEN IF new_entry.age # old.age THEN TRUE
         ELSE new_entry.node = "Exact"
    ELSE old.age # tt.age

\* the decision of store that never gives up a deeper entry
ReplaceKeepsDeeper(tt, old, new_entry) ==
    IF old.depth < 0 THEN TRUE
    ELSE IF new_entry.depth > old.depth THEN TRUE
    ELSE IF new_entry.depth = old.depth
    THEN IF new_entry.age # old.age THEN TRUE
         ELSE \/ new_entry.node = "Exact"
              \/ (new_entry.node = "LowerBound" /\ old.node = "UpperBound")
    ELSE FALSE

\* the decision of store: does new_entry replace old
Replace(tt, old, new_entry) ==
    IF old.depth < 0 THEN TRUE
    ELSE IF new_entry.depth > old.depth THEN TRUE
    ELSE IF new_entry.depth = old.depth
    THEN IF new_entry.age # old.age THEN TRUE
         ELSE \/ new_entry.node = "Exact"
              \/ (new_entry.node = "LowerBound" /\ old.node = "UpperBound")
    ELSE old.age # tt.age

\* store without the refresh of an entry of the same key
StoreNoRefresh(tt, key, depth, value, node, best_move) ==
    LET idx == index_of(tt, key)
        old == Slot(tt, idx)
        packed == IF best_move # <<>> THEN pack(best_move[1], best_move[2], best_move[3])
                  ELSE PackedNone
        new_entry == TTEntry(key, value, depth, node, tt.age, packed)
    IN IF Replace(tt, old, new_entry)
       THEN [tt EXCEPT !.buckets = (idx :> new_entry) @@ tt.buckets]
       ELSE tt

\* best_move is <<from, to, promo_id>> or <<>> for None
store(tt, key, depth, value, node, best_move) ==
    LET idx == index_of(tt, key)
        old == Slot(tt, idx)
        packed == IF best_move # <<>> THEN pack(best_move[1], best_move[2], best_move[3])
                  ELSE PackedNone
        new_entry == TTEntry(key, value, depth, node, tt.age, packed)
    IN IF Replace(tt, old, new_entry) \/ (old.key = key /\ new_entry.depth >= old.depth)
       THEN [tt EXCEPT !.buckets = (idx :> new_entry) @@ tt.buckets]
       ELSE tt

\* 'TTAB', 0x54544142
TTMagic == 1414807874

\* u8::from(NodeType)
node_to_u8(node) ==
    CASE node = "Exact" -> 0 [] node = "LowerBound" -> 1 [] node = "UpperBound" -> 2

\* NodeType::from(u8)
node_from_u8(v) ==
    CASE v = 0 -> "Exact" [] v = 1 -> "LowerBound" [] v = 2 -> "UpperBound"
      [] OTHER -> "Exact"

\* the fields save_to_file writes for the buckets from i on, six for each
RECURSIVE SaveEntries(_, _)
SaveEntries(t, i) ==
    IF i >= t.count THEN <<>>
    ELSE LET e == Slot(t, Word(i))
         IN <<e.key, e.value, e.depth, node_to_u8(e.node), e.age, e.best>>
            \o SaveEntries(t, i + 1)

\* the file save_to_file writes, as the sequence of the fields written: the
\* magic, the bucket count, the entries
save_to_file(t) == <<TTMagic, t.count>> \o SaveEntries(t, 0)

\* the loop of load_from_file over the buckets from i on; each field is one
\* read_exact, which fails where the file has ended
RECURSIVE LoadEntries(_, _, _)
LoadEntries(t, file, i) ==
    IF i >= t.count THEN [ok |-> TRUE, tt |-> t]
    ELSE IF Len(file) < 2 + 6 * (i + 1) THEN [ok |-> FALSE, tt |-> t]
    ELSE LET at == 2 + 6 * i
             e == TTEntry(file[at + 1], file[at + 2], file[at + 3],
                          node_from_u8(file[at + 4]), file[at + 5], file[at + 6])
         IN LoadEntries([t EXCEPT !.buckets = (Word(i) :> e) @@ @], file, i + 1)

\* load_from_file on an opened file: Err leaves ok FALSE
load_from_file(t, file) ==
    IF Len(file) < 1 THEN [ok |-> FALSE, tt |-> t]
    ELSE IF file[1] # TTMagic THEN [ok |-> FALSE, tt |-> t]
    ELSE IF Len(file) < 2 THEN [ok |-> FALSE, tt |-> t]
    ELSE IF file[2] # t.count THEN [ok |-> FALSE, tt |-> t]
    ELSE LoadEntries(t, file, 0)

\* ---------------------------------------------------------------------
\* Evaluation
\* ---------------------------------------------------------------------
PieceValue(p) ==
    CASE p = "WP" -> 100 [] p = "WN" -> 320 [] p = "WB" -> 330
      [] p = "WR" -> 500 [] p = "WQ" -> 900 [] p = "WK" -> 20000
      [] p = "BP" -> 0 - 100 [] p = "BN" -> 0 - 320 [] p = "BB" -> 0 - 330
      [] p = "BR" -> 0 - 500 [] p = "BQ" -> 0 - 900 [] p = "BK" -> 0 - 20000
      [] OTHER -> 0

\* the sum of the values of the lo-th to the hi-th square
RECURSIVE Material(_, _, _)
Material(cells, lo, hi) ==
    IF lo = hi THEN PieceValue(cells[sq(lo \div 8, lo % 8)])
    ELSE Material(cells, lo, (lo + hi) \div 2) + Material(cells, (lo + hi) \div 2 + 1, hi)

eval(b) == IF b.side_white THEN Material(b.cells, 0, 63) ELSE 0 - Material(b.cells, 0, 63)

\* ---------------------------------------------------------------------
\* Search.  The state a search works on is the board and the SearchInfo:
\* st.board, st.tt, st.nodes, st.time_limit and st.reads.  Time is the
\* number of readings of the clock: st.time_limit = NoLimit is None, and
\* Some(limit) is the number of readings of start.elapsed() that still find
\* the time below the limit; st.reads counts the readings made so far.
\* ---------------------------------------------------------------------
NoLimit == 0 - 1

NoneMove == Move(NoneSq, NoneSq, NonePiece)

SearchInfo(b, time_limit) ==
    [board |-> b, nodes |-> 0, reads |-> 0, time_limit |-> time_limit,
     tt |-> new_buckets(Pow2(18))]

zob == ZobristNew

\* if let Some(limit) = info.time_limit { if info.start.elapsed() >= limit ...
ReadClock(st) ==
    IF st.time_limit = NoLimit THEN [expired |-> FALSE, st |-> st]
    ELSE [expired |-> st.reads >= st.time_limit, st |-> [st EXCEPT !.reads = @ + 1]]

piece_to_promo_id(p) ==
    CASE p \in {"WQ", "BQ"} -> 1 [] p \in {"WR", "BR"} -> 2
      [] p \in {"WB", "BB"} -> 3 [] p \in {"WN", "BN"} -> 4 [] OTHER -> 0

piece_from_promo_id(id) ==
    CASE id = 1 -> "WQ" [] id = 2 -> "WR" [] id = 3 -> "WB" [] id = 4 -> "WN"
      [] OTHER -> NonePiece

\* moves.remove(pos); moves.insert(0, pv) for the first move with the from
\* and to of tm
HintFirst(moves, tm) ==
    LET hits == {i \in 1..Len(moves) : moves[i].from = tm.from /\ moves[i].to = tm.to}
    IN IF tm = NoneMove \/ hits = {} THEN moves
       ELSE LET pos == CHOOSE i \in hits : \A j \in hits : i <= j
            IN <<moves[pos]>> \o SubSeq(moves, 1, pos - 1) \o SubSeq(moves, pos + 1, Len(moves))

\* moves.sort_by_key(|m| if board.piece_at(m.to).is_empty() { 0 } else { 1 }),
\* a stable sort
SortByKey(b, moves) ==
    LET key0(m) == is_empty(b.cells[m.to])
        key1(m) == ~is_empty(b.cells[m.to])
    IN SelectSeq(moves, key0) \o SelectSeq(moves, key1)

OrderMoves(b, moves, tt_move) == SortByKey(b, HintFirst(moves, tt_move))

\* the node type negamax stores
Classify(best, alpha, beta) ==
    IF best <= alpha THEN "UpperBound"
    ELSE IF best >= beta THEN "LowerBound"
    ELSE "Exact"

\* the move of a probe that found an entry: Move::new(from, to,
\* piece_from_promo_id(promo)); NoneMove when there is none
TtMove(pr) ==
    IF pr.kind = "Found" /\ pr.entry.best # PackedNone
    THEN Move(unpack(pr.entry.best).from, unpack(pr.entry.best).to,
              piece_from_promo_id(unpack(pr.entry.best).promo))
    ELSE NoneMove

\* best_move_here.map(|m| (m.from, m.to, piece_to_promo_id(m.promotion)))
BestPacked(bm) ==
    IF bm # NoneMove THEN <<bm.from, bm.to, piece_to_promo_id(bm.promotion)>> ELSE <<>>

\* the score of a position without a legal move
NoMoveScore(b, depth) ==
    IF is_king_attacked(b, b.side_white) THEN (0 - 100000) + (100 - depth) ELSE 0

\* quiescence following every move of gen_moves
AllMoves(b) == gen_moves(b)

\* the moves quiescence follows: moves.retain(|m| !board.piece_at(m.to).is_empty())
CaptureMoves(b) == SelectSeq(gen_moves(b), LAMBDA m : ~is_empty(b.cells[m.to]))

RECURSIVE quiescence(_, _, _), QuiescenceLoop(_, _, _, _, _)

\* the loop of quiescence over the captures from the i-th on
QuiescenceLoop(st, moves, i, a, beta) ==
    IF i > Len(moves) THEN [val |-> a, st |-> st]
    ELSE
    Bind(quiescence([st EXCEPT !.board = make_move(@, moves[i].from, moves[i].to,
                                                   moves[i].promotion)],
                    0 - beta, 0 - a), LAMBDA r :
    Bind([r.st EXCEPT !.board = undo_move(@)], LAMBDA st2 :
    IF 0 - r.val >= beta THEN [val |-> beta, st |-> st2]
    ELSE QuiescenceLoop(st2, moves, i + 1, IF 0 - r.val > a THEN 0 - r.val ELSE a, beta)))

quiescence(st, alpha, beta) ==
    Bind(ReadClock(st), LAMBDA t :
    IF t.expired THEN [val |-> 0, st |-> t.st]
    ELSE
    Bind([t.st EXCEPT !.nodes = @ + 1], LAMBDA st1 :
    Bind(eval(st1.board), LAMBDA stand :
    IF stand >= beta THEN [val |-> beta, st |-> st1]
    ELSE QuiescenceLoop(st1, CaptureMoves(st1.board),
                        1, IF stand > alpha THEN stand ELSE alpha, beta))))

RECURSIVE negamax(_, _, _, _, _), NegamaxLoop(_, _, _, _, _, _, _, _, _)

\* the loop of negamax over the ordered moves from the i-th on
NegamaxLoop(st, moves, i, depth, ply, a, beta, best, best_move_here) ==
    IF i > Len(moves) THEN [best |-> best, best_move_here |-> best_move_here, st |-> st]
    ELSE
    Bind(negamax([st EXCEPT !.board = make_move(@, moves[i].from, moves[i].to,
                                                moves[i].promotion)],
                 depth - 1, ply + 1, 0 - beta, 0 - a), LAMBDA r :
    Bind([val |-> 0 - r.val, st2 |-> [r.st EXCEPT !.board = undo_move(@)]], LAMBDA c :
    Bind([best2 |-> IF c.val > best THEN c.val ELSE best,
          bm2 |-> IF c.val > best THEN moves[i] ELSE best_move_here,
          a2 |-> IF c.val > a THEN c.val ELSE a], LAMBDA n :
    IF n.a2 >= beta THEN [best |-> n.best2, best_move_here |-> n.bm2, st |-> c.st2]
    ELSE NegamaxLoop(c.st2, moves, i + 1, depth, ply, n.a2, beta, n.best2, n.bm2))))

negamax(st, depth, ply, alpha, beta) ==
    Bind(ReadClock(st), LAMBDA t :
    IF t.expired THEN [val |-> 0, st |-> t.st]
    ELSE
    Bind([t.st EXCEPT !.nodes = @ + 1], LAMBDA st1 :
    Bind(hash_board(zob, st1.board), LAMBDA key :
    Bind(probe(st1.tt, key, depth, alpha, beta), LAMBDA pr :
    IF pr.kind = "Usable" THEN [val |-> pr.value, st |-> st1]
    ELSE IF depth = 0 THEN quiescence(st1, alpha, beta)
    ELSE
    Bind(gen_moves(st1.board), LAMBDA moves :
    IF moves = <<>> THEN [val |-> NoMoveScore(st1.board, depth), st |-> st1]
    ELSE
    Bind(NegamaxLoop(st1, OrderMoves(st1.board, moves, TtMove(pr)), 1, depth, ply,
                     alpha, beta, 0 - 999999, NoneMove), LAMBDA r :
    [val |-> r.best,
     st |-> [r.st EXCEPT !.tt = store(@, key, depth, r.best, Classify(r.best, alpha, beta),
                                      BestPacked(r.best_move_here))]]))))))

\* at the deadline the move of the interrupted iteration is preferred
TimeoutReturnsIncumbent(best_move_overall, best_move_this_depth) ==
    IF best_move_this_depth # NoneMove THEN best_move_this_depth ELSE best_move_overall

\* at the deadline only a completed iteration's move is returned
TimeoutReturnsCompleted(best_move_overall, best_move_this_depth) == best_move_overall

\* what search_root returns at the deadline (engine.rs:1279-1284)
TimeoutReturn(best_move_overall, best_move_this_depth) ==
    IF best_move_overall # NoneMove THEN best_move_overall
    ELSE IF best_move_this_depth # NoneMove THEN best_move_this_depth
    ELSE NoneMove

\* only a value above zero replaces the incumbent of this depth
RootImprovesAboveZero(val, best_score) == val > best_score /\ val > 0

\* does the value of a root move replace the incumbent of this depth
RootImproves(val, best_score) == val > best_score

\* the loop of search_root over the root moves from the i-th on, at one depth
RECURSIVE RootLoop(_, _, _, _, _, _, _)
RootLoop(st, root_moves, i, depth, alpha, best_score, best_move_this_depth) ==
    IF i > Len(root_moves)
    THEN [timed_out |-> FALSE, best_score |-> best_score,
          best_move_this_depth |-> best_move_this_depth, st |-> st]
    ELSE
    Bind(negamax([st EXCEPT !.board = make_move(@, root_moves[i].from, root_moves[i].to,
                                                root_moves[i].promotion)],
                 depth - 1, 1, 0 - 1000000, 0 - alpha), LAMBDA r :
    Bind([val |-> 0 - r.val, st2 |-> [r.st EXCEPT !.board = undo_move(@)]], LAMBDA c :
    Bind([bs |-> IF RootImproves(c.val, best_score) THEN c.val ELSE best_score,
          bm |-> IF RootImproves(c.val, best_score) THEN root_moves[i]
                 ELSE best_move_this_depth,
          t |-> ReadClock(c.st2)], LAMBDA n :
    IF n.t.expired
    THEN [timed_out |-> TRUE, best_score |-> n.bs, best_move_this_depth |-> n.bm,
          st |-> n.t.st]
    ELSE RootLoop(n.t.st, root_moves, i + 1, depth,
                  IF c.val > alpha THEN c.val ELSE alpha, n.bs, n.bm))))

\* the iterations of search_root from depth on.  lines is what the search
\* prints for the depths it completes: the depth, the score and the move.
RECURSIVE Deepen(_, _, _, _, _, _)
Deepen(st, root_moves, depth, max_depth, best_move_overall, lines) ==
    IF depth > max_depth
    THEN [ret |-> best_move_overall, board |-> st.board, lines |-> lines,
          timed_out |-> FALSE, at_depth |-> 0, incumbent |-> NoneMove, nodes |-> st.nodes]
    ELSE
    Bind(RootLoop([st EXCEPT !.tt = new_search(@)], root_moves, 1, depth,
                  0 - 1000000, 0 - 999999, NoneMove), LAMBDA r :
    IF r.timed_out
    THEN [ret |-> TimeoutReturn(best_move_overall, r.best_move_this_depth),
          board |-> r.st.board, lines |-> lines,
          timed_out |-> TRUE, at_depth |-> depth,
          incumbent |-> r.best_move_this_depth, nodes |-> r.st.nodes]
    ELSE Deepen(r.st, root_moves, depth + 1, max_depth,
                IF r.best_move_this_depth # NoneMove THEN r.best_move_this_depth
                ELSE best_move_overall,
                Append(lines, [depth |-> depth, score |-> r.best_score,
                               move |-> r.best_move_this_depth])))

\* search_root: the move returned (NoneMove for None), the board it leaves,
\* the lines printed, and, when the deadline stopped it, the depth it was in
\* and the incumbent of that depth
search_root(b, max_depth, time_limit) ==
    LET root_moves == gen_moves(b)
    IN IF root_moves = <<>>
       THEN [ret |-> NoneMove, board |-> b, lines |-> <<>>, timed_out |-> FALSE,
             at_depth |-> 0, incumbent |-> NoneMove, nodes |-> 0]
       ELSE Deepen(SearchInfo(b, time_limit), root_moves, 1, max_depth, NoneMove, <<>>)

ai_move(b, depth, time_ms) == search_root(b, depth, time_ms)

\* the number of leaves of the tree of depth d that gen_moves and make_move
\* build from b
RECURSIVE Perft(_, _)
Perft(b, d) ==
    IF d = 0 THEN 1
    ELSE LET moves == gen_moves(b)
             RECURSIVE Sum(_)
             Sum(i) == IF i > Len(moves) THEN 0
                       ELSE Perft(make_move(b, moves[i].from, moves[i].to, moves[i].promotion), d - 1)
                            + Sum(i + 1)
         IN IF d = 1 THEN Len(moves) ELSE Sum(1)

\* ---------------------------------------------------------------------
\* The state: the board of the game and the outcome of the last search
\* ---------------------------------------------------------------------
\* board: the board of the game; search: the last call of ai_move;
\* tt: a transposition table used on its own; last: the last operation on
\* the table, or the last command of the user, with what it returned
\* zg: the global Zobrist instance and the threads that ask for it
VARIABLES board, search, tt, last, zg

vars == <<board, search, tt, last, zg>>

\* how many buckets the table is created with
TTBuckets == 2

NoOp == [op |-> "none"]

\* how many threads use the global Zobrist instance, and how many calls and
\* reads each of them makes
NThreads == 2
MaxCalls == 2

Threads == 1..NThreads

\* GLOBAL_ZOBRIST before any call: the cell is empty (0), nobody runs its
\* initializer, no Zobrist has been constructed, the Mutex of no instance is
\* held, and no thread holds an Arc
NoGlobal ==
    [cell |-> 0, init_by |-> 0, made |-> <<>>, installed |-> <<>>, mutex |-> 0,
     hash_calls |-> 0,
     pc |-> [t \in Threads |-> "idle"],
     arc |-> [t \in Threads |-> 0],
     cand |-> [t \in Threads |-> 0],
     calls |-> [t \in Threads |-> 0]]

\* no search has run yet
NoSearch ==
    [done |-> FALSE, pre |-> empty, max_depth |-> 0, time_limit |-> NoLimit,
     out |-> [ret |-> NoneMove, board |-> empty, lines |-> <<>>, timed_out |-> FALSE,
              at_depth |-> 0, incumbent |-> NoneMove, nodes |-> 0]]

\* the outcome of ai_move(b, max_depth, time_limit), with the board it was given
Outcome(b, max_depth, time_limit) ==
    [done |-> TRUE, pre |-> b, max_depth |-> max_depth, time_limit |-> time_limit,
     out |-> ai_move(b, max_depth, time_limit)]

\* ---------------------------------------------------------------------
\* The game: a board played on through make_move (with moves of gen_moves),
\* undo_move and redo_move
\* ---------------------------------------------------------------------
Init ==
    /\ board \in InitBoards \cup TransposedBoards
    /\ search = NoSearch
    /\ tt = new_buckets(TTBuckets)
    /\ last = NoOp
    /\ zg = NoGlobal

\* a move of gen_moves is played (GameController::try_make_move, the engine's reply)
MakeMove ==
    /\ Len(board.history) < MaxPly
    /\ board.fullmove < MaxFullmove
    /\ \E m \in Range(gen_moves(board)) :
         board' = make_move(board, m.from, m.to, m.promotion)
    /\ UNCHANGED <<search, tt, last, zg>>

\* the undo command
UndoMove == board' = undo_move(board) /\ UNCHANGED <<search, tt, last, zg>>

\* the redo command
RedoMove ==
    /\ board.fullmove < MaxFullmove
    /\ board' = redo_move(board)
    /\ UNCHANGED <<search, tt, last, zg>>

Next == MakeMove \/ UndoMove \/ RedoMove

Spec == Init /\ [][Next]_vars

\* games from the positions that exercise the bookkeeping of make_move,
\* undo_move and redo_move: castling rights, en passant, the clocks
InitRules ==
    /\ board \in {from_fen(f) : f \in {FEN_EP, FEN_EP_READY, FEN_CASTLE, FEN_ALL_RIGHTS}}
    /\ search = NoSearch
    /\ tt = new_buckets(TTBuckets)
    /\ last = NoOp
    /\ zg = NoGlobal

SpecRules == InitRules /\ [][Next]_vars

\* ---------------------------------------------------------------------
\* The engine at work: ai_move on the board of the game, as the hint and
\* the analysis of the UI call it and as the go commands of the CLI do
\* ---------------------------------------------------------------------
SearchFens == {FEN_ONE_MOVE, FEN_PROMO, FEN_CHECK}

\* the positions a search is asked for: those of SearchFens and the positions
\* one move of gen_moves later
SearchBoards ==
    UNION {{from_fen(f)} \cup {make_move(from_fen(f), m.from, m.to, m.promotion) :
                                 m \in Range(gen_moves(from_fen(f)))} : f \in SearchFens}

TimeLimits == {NoLimit} \cup (0..MaxTicks)

\* go time <ms> searches to this depth (engine.rs:1419)
GoTimeDepth == 6

InitSearch ==
    /\ board \in SearchBoards \cup {from_fen(FEN_MATE_IN_ONE), from_fen(FEN_CHECKMATED),
                                     from_fen(FEN_STALEMATED)}
    /\ search = NoSearch
    /\ tt = new_buckets(TTBuckets)
    /\ last = NoOp
    /\ zg = NoGlobal

\* the board after `engine -> mv`: the move returned is played, None leaves
\* the board as the search left it
Played(out) ==
    IF out.ret # NoneMove
    THEN make_move(out.board, out.ret.from, out.ret.to, out.ret.promotion)
    ELSE out.board

\* GameController::show_hint (a deadline) and run_analysis (none): the
\* search runs on the board of the game and the move is only shown
AiMove ==
    /\ ~search.done
    /\ \E d \in 1..MaxDepth, t \in TimeLimits :
         /\ search' = Outcome(board, d, t)
         /\ board' = search'.out.board
    /\ UNCHANGED <<tt, last, zg>>

\* go depth <n>: the search without a deadline, then the move is played; n is
\* any i32 the user types, 0 among them
GoDepth ==
    /\ ~search.done
    /\ \E d \in 0..MaxDepth :
         /\ search' = Outcome(board, d, NoLimit)
         /\ board' = Played(search'.out)
    /\ UNCHANGED <<tt, last, zg>>

\* go time <ms>: the search to depth 6 under a deadline, then the move is played
GoTime ==
    /\ ~search.done
    /\ \E t \in 0..MaxTicks :
         /\ search' = Outcome(board, GoTimeDepth, t)
         /\ board' = Played(search'.out)
    /\ UNCHANGED <<tt, last, zg>>

\* one search is followed through: the position is drawn by InitSearch, one
\* of the callers of ai_move runs on it, and undo and redo act on what it left
NextSearch == AiMove \/ GoDepth \/ GoTime \/ UndoMove \/ RedoMove

SpecSearch == InitSearch /\ [][NextSearch]_vars

\* ---------------------------------------------------------------------
\* The transposition table on its own: entries are stored and probed, and
\* new_search starts a new generation
\* ---------------------------------------------------------------------
MaxTTDepth == 1
MaxAge == 2

\* two keys of the same bucket: 0 and 4
TTKeys == {{}, {2}}
TTNodes == {"Exact", "LowerBound", "UpperBound"}
\* the values stored, each with its best move: none, and e1e2
TTStored == {<<0 - 1, <<>>>>, <<1, <<4, 20, 0>>>>}
\* the windows <<alpha, beta>> probed with
TTWindows == {<<0 - 1, 0>>, <<0, 1>>}

InitTT ==
    /\ board = empty
    /\ search = NoSearch
    /\ tt = new_buckets(TTBuckets)
    /\ last = NoOp
    /\ zg = NoGlobal

\* tt.store(key, depth, value, node, best_move); last keeps the arguments,
\* the entry the bucket held before and the age of the table
Store ==
    /\ \E k \in TTKeys, d \in 0..MaxTTDepth, vb \in TTStored, n \in TTNodes :
         /\ tt' = store(tt, k, d, vb[1], n, vb[2])
         /\ last' = [op |-> "store", key |-> k, depth |-> d, value |-> vb[1], node |-> n,
                     best_move |-> vb[2], old |-> Slot(tt, index_of(tt, k)), age |-> tt.age]
    /\ UNCHANGED <<board, search, zg>>

\* tt.probe(key, depth, alpha, beta); last keeps the arguments and the result
Probe ==
    /\ \E k \in TTKeys, d \in 0..MaxTTDepth, w \in TTWindows :
         last' = [op |-> "probe", key |-> k, depth |-> d, alpha |-> w[1], beta |-> w[2],
                  result |-> probe(tt, k, d, w[1], w[2])]
    /\ UNCHANGED <<board, search, tt, zg>>

\* tt.new_search()
NewSearch ==
    /\ tt.age < MaxAge
    /\ tt' = new_search(tt)
    /\ last' = [op |-> "new_search"]
    /\ UNCHANGED <<board, search, zg>>

NextTT == Store \/ Probe \/ NewSearch

SpecTT == InitTT /\ [][NextTT]_vars

\* ---------------------------------------------------------------------
\* The table over many searches.  The age is a u8: new_search wraps it after
\* AgeModulus calls.  last keeps, besides the arguments of the last store,
\* the number of new_search calls made so far (gen) and, for each bucket,
\* the number of calls that had been made when it was last written.
\* ---------------------------------------------------------------------
AgeModulus == 256
MaxWraps == 1

\* new_search called n times in a row; the first half is worked out before
\* the second half starts from it
RECURSIVE NewSearchTimes(_, _)
NewSearchTimes(t, n) ==
    IF n = 0 THEN t
    ELSE IF n = 1 THEN new_search(t)
    ELSE LET half == n \div 2
             first == NewSearchTimes(t, half)
         IN CASE first.age >= 0 -> NewSearchTimes(first, n - half)

InitAge ==
    /\ board = empty
    /\ search = NoSearch
    /\ tt = new_buckets(TTBuckets)
    /\ last = [op |-> "none", gen |-> 0, written |-> <<>>]
    /\ zg = NoGlobal

\* the entry store builds from its arguments
NewEntry(key, depth, value, node, age, best_move) ==
    TTEntry(key, value, depth, node, age,
            IF best_move # <<>> THEN pack(best_move[1], best_move[2], best_move[3])
            ELSE PackedNone)

\* tt.store(key, depth, value, node, best_move)
StoreAged ==
    /\ \E k \in TTKeys, d \in 0..MaxTTDepth, n \in TTNodes :
         LET idx == index_of(tt, k)
             after == store(tt, k, d, 1, n, <<>>)
         IN /\ tt' = after
            /\ last' = [op |-> "store", key |-> k, depth |-> d, value |-> 1, node |-> n,
                        best_move |-> <<>>, old |-> Slot(tt, idx), age |-> tt.age,
                        old_gen |-> IF idx \in DOMAIN last.written THEN last.written[idx]
                                    ELSE 0 - 1,
                        gen |-> last.gen,
                        written |-> IF Slot(after, idx) = NewEntry(k, d, 1, n, tt.age, <<>>)
                                    THEN (idx :> last.gen) @@ last.written
                                    ELSE last.written]
    /\ UNCHANGED <<board, search, zg>>

\* tt.new_search(), once or AgeModulus times in a row
NewSearches ==
    /\ \E times \in {1, AgeModulus} :
         /\ times = 1 => tt.age < MaxAge
         /\ times = AgeModulus => last.gen \div AgeModulus < MaxWraps
         /\ tt' = NewSearchTimes(tt, times)
         /\ last' = [op |-> "new_search", gen |-> last.gen + times,
                     written |-> last.written]
    /\ UNCHANGED <<board, search, zg>>

NextAge == StoreAged \/ NewSearches

SpecAge == InitAge /\ [][NextAge]_vars

\* ---------------------------------------------------------------------
\* The two constructors of the table.  last keeps what was asked for and,
\* for new_strict_size_mb, the shift pow: the bucket count is 1 << pow,
\* which passes every memory on a 64-bit build, so that the table itself is
\* built only when pow is below TableShiftLimit.
\* ---------------------------------------------------------------------
MaxAsked == 64
MaxSizeMb == 24
TableShiftLimit == 30

InitSize ==
    /\ board = empty
    /\ search = NoSearch
    /\ tt = new_buckets(1)
    /\ last = NoOp
    /\ zg = NoGlobal

\* TranspositionTable::new_buckets(n)
NewBuckets ==
    /\ \E n \in 1..MaxAsked :
         /\ tt' = new_buckets(n)
         /\ last' = [op |-> "new_buckets", asked |-> n]
    /\ UNCHANGED <<board, search, zg>>

\* TranspositionTable::new_strict_size_mb(size_mb) on a 32-bit or 64-bit build
NewStrictSizeMb ==
    /\ \E size_mb \in 0..MaxSizeMb, usize_bits \in {32, 64} :
         LET pow == StrictSizeShift(size_mb, usize_bits)
         IN /\ tt' = IF pow < TableShiftLimit THEN new_buckets(Pow2(pow)) ELSE tt
            /\ last' = [op |-> "new_strict_size_mb", size_mb |-> size_mb,
                        usize_bits |-> usize_bits, pow |-> pow]
    /\ UNCHANGED <<board, search, zg>>

NextSize == NewBuckets \/ NewStrictSizeMb

SpecSize == InitSize /\ [][NextSize]_vars

\* ---------------------------------------------------------------------
\* Persistence: a table that stores and loads files.  The files are the
\* dump of a table of the same size with an entry in every bucket, cut off
\* after any number of fields, with another magic, or with another count.
\* ---------------------------------------------------------------------
RECURSIVE Filled(_, _)
Filled(t, i) ==
    IF i >= t.count THEN t
    ELSE Filled([t EXCEPT !.buckets =
                    (Word(i) :> TTEntry(Word(i), 5, 1, "LowerBound", 7, pack(4, 20, 0))) @@ @],
                i + 1)

DumpFiles ==
    LET whole == save_to_file(Filled(new_buckets(TTBuckets), 0))
    IN {SubSeq(whole, 1, n) : n \in 0..Len(whole)}
       \cup {[whole EXCEPT ![1] = 0], [whole EXCEPT ![2] = @ + 1]}

\* tt.load_from_file(path); last keeps the file, the table before and the result
LoadFromFile ==
    /\ \E file \in DumpFiles :
         LET r == load_from_file(tt, file)
         IN /\ tt' = r.tt
            /\ last' = [op |-> "load", file |-> file, pre |-> tt, ok |-> r.ok]
    /\ UNCHANGED <<board, search, zg>>

NextFile == Store \/ LoadFromFile

SpecFile == InitTT /\ [][NextFile]_vars

\* ---------------------------------------------------------------------
\* The recursion of a search without a deadline, call by call: the frames of
\* search_root, negamax and quiescence that are active, each with the moves
\* of its loop and the index of the next one.  The scores are left out: a
\* return before the end of a loop (beta cutoff, stand-pat, usable table
\* entry) may happen at any call.
\* ---------------------------------------------------------------------
MaxWalkDepth == 2

Frame(kind, depth, moves) == [kind |-> kind, depth |-> depth, moves |-> moves, i |-> 1]

\* the frame of negamax(board, depth, ..): at depth 0 it is that of quiescence
NegamaxFrame(b, depth) ==
    IF depth = 0 THEN Frame("quiescence", 0, CaptureMoves(b))
    ELSE Frame("negamax", depth, gen_moves(b))

\* the frame of the call the loop of f makes on b, the board after its move
ChildFrame(f, b) ==
    IF f.kind = "quiescence" THEN Frame("quiescence", 0, CaptureMoves(b))
    ELSE NegamaxFrame(b, f.depth - 1)

Top(frames) == frames[Len(frames)]

Advance(frames) == [frames EXCEPT ![Len(frames)].i = @ + 1]

InitWalk ==
    /\ board \in {from_fen(f) : f \in {FEN_ONE_MOVE, FEN_PAWN_EN_PRISE, FEN_STALEMATED}}
    /\ search = NoSearch
    /\ tt = new_buckets(TTBuckets)
    /\ last = NoOp
    /\ zg = NoGlobal

\* search_root(board, max_depth, None) is entered
EnterSearch ==
    /\ last = NoOp
    /\ \E max_depth \in 0..MaxWalkDepth :
         last' = IF gen_moves(board) = <<>> \/ max_depth < 1
                 THEN [op |-> "returned", max_depth |-> max_depth, frames |-> <<>>]
                 ELSE [op |-> "search", max_depth |-> max_depth,
                       frames |-> <<Frame("root", 1, gen_moves(board))>>]
    /\ board' = board
    /\ UNCHANGED <<search, tt, zg>>

\* the loop of the top frame makes its next move and calls
Call ==
    /\ last.op = "search"
    /\ Top(last.frames).i <= Len(Top(last.frames).moves)
    /\ LET f == Top(last.frames)
           m == f.moves[f.i]
       IN /\ board' = make_move(board, m.from, m.to, m.promotion)
          /\ last' = [last EXCEPT !.frames = Append(@, ChildFrame(f, board'))]
    /\ UNCHANGED <<search, tt, zg>>

\* the call of the top frame returns, at the end of its loop or before; the
\* caller takes the move back and goes on to its next move
Return ==
    /\ last.op = "search"
    /\ Len(last.frames) > 1
    /\ board' = undo_move(board)
    /\ last' = [last EXCEPT !.frames = Advance(SubSeq(@, 1, Len(@) - 1))]
    /\ UNCHANGED <<search, tt, zg>>

\* a return before the moves of the loop are through: a usable table entry,
\* stand-pat, or a beta cutoff
ReturnsEarly == Return /\ Top(last.frames).i <= Len(Top(last.frames).moves)

\* a return at the end of the loop
ReturnsAtEnd == Return /\ Top(last.frames).i > Len(Top(last.frames).moves)

\* the root has tried all its moves at this depth: the next depth, or the
\* best move is returned
NextDepth ==
    /\ last.op = "search"
    /\ Len(last.frames) = 1
    /\ Top(last.frames).i > Len(Top(last.frames).moves)
    /\ last' = IF Top(last.frames).depth < last.max_depth
               THEN [last EXCEPT !.frames = <<Frame("root", Top(@).depth + 1, Top(@).moves)>>]
               ELSE [last EXCEPT !.op = "returned", !.frames = <<>>]
    /\ board' = board
    /\ UNCHANGED <<search, tt, zg>>

NextWalk == EnterSearch \/ Call \/ ReturnsEarly \/ ReturnsAtEnd \/ NextDepth

\* the search runs on its own thread of control and is not preempted
SpecWalk == InitWalk /\ [][NextWalk]_vars /\ WF_vars(NextWalk)

\* ---------------------------------------------------------------------
\* Games from the standard start position along the lines that bring the
\* kings and the king's rooks to move, to castle and to be taken
\* ---------------------------------------------------------------------
MaxLinePly == 7
MaxLineFullmove == 4

\* the <<from, to>> of the moves followed: g2g3, f1g2, g1f3, e1g1, b2b3,
\* c1b2, b2h8 for White and g7g6, g8f6, h8g8, b7b6 for Black
LineMoves ==
    {<<22, 38>>, <<5, 22>>, <<6, 37>>, <<4, 6>>,
     <<17, 33>>, <<2, 17>>, <<17, 119>>,
     <<102, 86>>, <<118, 85>>, <<119, 118>>, <<97, 81>>}

InitStart ==
    /\ board = StartBoard
    /\ search = NoSearch
    /\ tt = new_buckets(TTBuckets)
    /\ last = NoOp
    /\ zg = NoGlobal

\* a move of gen_moves along the lines is played
MakeLineMove ==
    /\ Len(board.history) < MaxLinePly
    /\ board.fullmove < MaxLineFullmove
    /\ \E m \in Range(gen_moves(board)) :
         /\ <<m.from, m.to>> \in LineMoves
         /\ board' = make_move(board, m.from, m.to, m.promotion)
    /\ UNCHANGED <<search, tt, last, zg>>

\* the redo command
RedoLineMove ==
    /\ board.fullmove < MaxLineFullmove
    /\ board' = redo_move(board)
    /\ UNCHANGED <<search, tt, last, zg>>

NextStart == MakeLineMove \/ UndoMove \/ RedoLineMove

SpecStart == InitStart /\ [][NextStart]_vars

\* ---------------------------------------------------------------------
\* What the user types: a move to GameController::try_make_move, and the
\* move and fen commands of the engine's command loop
\* ---------------------------------------------------------------------
\* str::to_lowercase, for the letters of files and pieces
to_lowercase(chars) ==
    LET Uppers == <<"A", "B", "C", "D", "E", "F", "G", "H", "K", "N", "P", "Q", "R">>
        Lowers == <<"a", "b", "c", "d", "e", "f", "g", "h", "k", "n", "p", "q", "r">>
    IN [i \in 1..Len(chars) |->
           IF IndexOf(Uppers, chars[i]) # 0 THEN Lowers[IndexOf(Uppers, chars[i])]
           ELSE chars[i]]

\* str::trim, for blanks
RECURSIVE trim(_)
trim(chars) ==
    IF chars = <<>> THEN chars
    ELSE IF Head(chars) = " " THEN trim(Tail(chars))
    ELSE IF Last(chars) = " " THEN trim(SubSeq(chars, 1, Len(chars) - 1))
    ELSE chars

is_valid_square(s) ==
    /\ Len(s) = 2
    /\ IndexOf(Files, s[1]) # 0
    /\ IndexOf(Ranks, s[2]) # 0

\* Ok((from, to, promotion)) or Err; promotion is <<>> for None and <<c>> for Some(c)
validate_move(input) ==
    LET t == to_lowercase(trim(input))
        err == [ok |-> FALSE, from |-> <<>>, to |-> <<>>, promotion |-> <<>>]
    IN IF Len(t) < 4 THEN err
       ELSE IF ~is_valid_square(SubSeq(t, 1, 2)) THEN err
       ELSE IF ~is_valid_square(SubSeq(t, 3, 4)) THEN err
       ELSE IF Len(t) >= 5 /\ t[5] \notin {"q", "r", "b", "n"} THEN err
       ELSE [ok |-> TRUE, from |-> SubSeq(t, 1, 2), to |-> SubSeq(t, 3, 4),
             promotion |-> IF Len(t) >= 5 THEN <<t[5]>> ELSE <<>>]

\* the Result of try_make_move and the board it leaves
try_make_move(b, move_str) ==
    LET v == validate_move(move_str)
        from == alg_to_sq(trim(v.from))
        to == alg_to_sq(trim(v.to))
        promotion == IF v.promotion = <<>> THEN NonePiece ELSE from_char(v.promotion[1])
        is_legal == \E m \in Range(gen_moves(b)) :
                        m.from = from /\ m.to = to /\ m.promotion = promotion
    IN IF ~v.ok \/ from = NoneSq \/ to = NoneSq \/ ~is_legal
       THEN [ok |-> FALSE, board |-> b]
       ELSE [ok |-> TRUE, board |-> make_move(b, from, to, promotion)]

\* the board after the command `move <mv>` of run
run_move(b, mv) ==
    LET from == alg_to_sq(SubSeq(mv, 1, 2))
        to == alg_to_sq(SubSeq(mv, 3, 4))
        promotion == IF Len(mv) >= 5 THEN from_char(mv[5]) ELSE NonePiece
    IN IF Len(mv) < 4 THEN b
       ELSE IF from # NoneSq /\ to # NoneSq THEN make_move(b, from, to, promotion)
       ELSE b

\* the text <from><to>[promo] of a move, the promotion as a lower-case letter
MoveText(m) ==
    sq_to_alg(m.from) \o sq_to_alg(m.to)
      \o (IF m.promotion = NonePiece THEN <<>> ELSE to_lowercase(<<to_char(m.promotion)>>))

\* what is typed as a move on b: the moves of gen_moves, and texts that are
\* moves on some boards only or on none
UserTexts(b) ==
    {MoveText(m) : m \in Range(gen_moves(b))}
      \cup {<<"e", "2", "e", "5">>, <<"E", "2", "E", "4">>, <<" ", "e", "2", "e", "4", " ">>,
            <<"a", "7", "a", "8", "q">>, <<"a", "7", "a", "8", "N">>, <<"a", "7", "a", "8">>,
            <<"a", "2", "a", "1", "k">>, <<"e", "2">>, <<"i", "2", "e", "4">>,
            <<"e", "1", "g", "1">>, <<"e", "3", "e", "4">>}

\* FENs typed after `fen`: well-formed ones, and the one-move position with
\* a rank missing, a rank too many, nine files on a rank, an unknown piece
\* letter, a side, an en passant square and counters that are none
UserFens ==
    {FEN_ONE_MOVE, FEN_EP,
     [FEN_ONE_MOVE EXCEPT ![1] = SubSeq(@, 1, Len(@) - 3)],
     [FEN_ONE_MOVE EXCEPT ![1] = @ \o <<"/", "Q", "7">>],
     [FEN_ONE_MOVE EXCEPT ![1] = <<"r", "n", "b", "q", "k", "b", "n", "r", "r", "/">> \o Tail(Tail(@))],
     [FEN_ONE_MOVE EXCEPT ![1] = <<"x", "7", "/">> \o Tail(Tail(@))],
     [FEN_ONE_MOVE EXCEPT ![2] = <<"x">>],
     [FEN_ONE_MOVE EXCEPT ![4] = <<"z", "9">>],
     [FEN_ONE_MOVE EXCEPT ![5] = <<"a">>, ![6] = <<"b">>]}

InitUser ==
    /\ board \in {from_fen(f) : f \in {FEN_START, FEN_PROMO, FEN_BLACK_PROMO, FEN_CASTLE}}
    /\ search = NoSearch
    /\ tt = new_buckets(TTBuckets)
    /\ last = NoOp
    /\ zg = NoGlobal

\* a move typed to the GameController
TryMakeMove ==
    /\ last = NoOp
    /\ \E text \in UserTexts(board) :
         /\ board' = try_make_move(board, text).board
         /\ last' = [op |-> "try_make_move", text |-> text, pre |-> board,
                     ok |-> try_make_move(board, text).ok]
    /\ UNCHANGED <<search, tt, zg>>

\* move <mv> typed to the command loop
CliMove ==
    /\ last = NoOp
    /\ \E text \in UserTexts(board) :
         /\ board' = run_move(board, text)
         /\ last' = [op |-> "move", text |-> text, pre |-> board]
    /\ UNCHANGED <<search, tt, zg>>

\* fen <FEN> typed to the command loop; a panic of from_fen ends the program
\* with the board as it was
CliFen ==
    /\ last = NoOp
    /\ \E parts \in UserFens :
         /\ board' = IF from_fen_run(parts).panic THEN board ELSE from_fen(parts)
         /\ last' = [op |-> "fen", text |-> parts, pre |-> board,
                     panic |-> from_fen_run(parts).panic]
    /\ UNCHANGED <<search, tt, zg>>

\* one command of the user is followed through on a board drawn by InitUser
NextUser == TryMakeMove \/ CliMove \/ CliFen

SpecUser == InitUser /\ [][NextUser]_vars

\* ---------------------------------------------------------------------
\* zobrist.rs: the global instance, a OnceLock<Arc<Mutex<Zobrist>>>, asked
\* for by several threads. A Zobrist is the index of its seed in zg.made.
\* ---------------------------------------------------------------------
\* the seed of Zobrist::new()
DefaultSeed == 2024

InitGlobal ==
    /\ board = empty
    /\ search = NoSearch
    /\ tt = new_buckets(TTBuckets)
    /\ last = NoOp
    /\ zg = NoGlobal

\* Zobrist::global(), get_or_init: a set cell is cloned; an empty cell whose
\* initializer nobody runs makes the caller run it; otherwise the caller waits
GlobalCall(t) ==
    /\ zg.pc[t] = "idle"
    /\ zg.calls[t] < MaxCalls
    /\ zg.cell # 0 \/ zg.init_by = 0
    /\ zg' = IF zg.cell # 0
             THEN [zg EXCEPT !.arc[t] = zg.cell, !.pc[t] = "has", !.calls[t] = @ + 1]
             ELSE [zg EXCEPT !.init_by = t, !.pc[t] = "init", !.calls[t] = @ + 1]
    /\ UNCHANGED <<board, search, tt, last>>

\* the initializer of get_or_init returns Arc::new(Mutex::new(Zobrist::new())),
\* the cell is set to it and the caller gets its clone
GlobalInit(t) ==
    /\ zg.pc[t] = "init"
    /\ zg' = [zg EXCEPT !.made = Append(@, DefaultSeed),
                        !.cell = Len(zg.made) + 1,
                        !.installed = Append(@, Len(zg.made) + 1),
                        !.init_by = 0,
                        !.arc[t] = Len(zg.made) + 1,
                        !.pc[t] = "has"]
    /\ UNCHANGED <<board, search, tt, last>>

\* Zobrist::init_global(seed): the argument of set is constructed first
InitGlobalCall(t) ==
    /\ zg.pc[t] = "idle"
    /\ zg.calls[t] < MaxCalls
    /\ \E seed \in {7} :
         zg' = [zg EXCEPT !.made = Append(@, seed), !.cand[t] = Len(zg.made) + 1,
                          !.pc[t] = "set", !.calls[t] = @ + 1]
    /\ UNCHANGED <<board, search, tt, last>>

\* set that replaces the instance of a cell that is set already
InitGlobalSetOverwrites(t) ==
    /\ zg.pc[t] = "set"
    /\ zg.init_by = 0
    /\ zg' = [zg EXCEPT !.cell = zg.cand[t], !.installed = Append(@, zg.cand[t]),
                        !.cand[t] = 0,
                        !.pc[t] = IF zg.arc[t] # 0 THEN "has" ELSE "idle"]
    /\ UNCHANGED <<board, search, tt, last>>

\* GLOBAL_ZOBRIST.set(value), for the Zobrist this thread made: it waits for
\* a running initializer, sets an empty cell and drops the value otherwise
InitGlobalSet(t) ==
    /\ zg.pc[t] = "set"
    /\ zg.init_by = 0
    /\ zg' = IF zg.cell = 0
             THEN [zg EXCEPT !.cell = zg.cand[t], !.installed = Append(@, zg.cand[t]),
                             !.cand[t] = 0,
                             !.pc[t] = IF zg.arc[t] # 0 THEN "has" ELSE "idle"]
             ELSE [zg EXCEPT !.cand[t] = 0,
                             !.pc[t] = IF zg.arc[t] # 0 THEN "has" ELSE "idle"]
    /\ UNCHANGED <<board, search, tt, last>>

\* arc.lock(): the only way to the Zobrist inside the Mutex
Lock(t) ==
    /\ zg.pc[t] = "has"
    /\ zg.mutex = 0
    /\ zg.hash_calls < MaxCalls
    /\ zg' = [zg EXCEPT !.mutex = t, !.pc[t] = "locked"]
    /\ UNCHANGED <<board, search, tt, last>>

\* hash_board(&mut self, ..) under the guard: the key tables are read and the
\* statistics counted, then the guard is dropped
HashAndUnlock(t) ==
    /\ zg.pc[t] = "locked"
    /\ zg' = [zg EXCEPT !.mutex = 0, !.hash_calls = @ + 1, !.pc[t] = "has"]
    /\ UNCHANGED <<board, search, tt, last>>

NextGlobal ==
    \E t \in Threads :
        \/ GlobalCall(t) \/ GlobalInit(t) \/ InitGlobalCall(t) \/ InitGlobalSet(t)
        \/ Lock(t) \/ HashAndUnlock(t)

SpecGlobal == InitGlobal /\ [][NextGlobal]_vars

\* =====================================================================
\* Properties
\* =====================================================================
\* what C1 and C8 compare of two boards
Obs(b) ==
    <<b.cells, b.side_white, b.castling, b.ep, b.halfmove_clock, b.fullmove, b.history>>

\* the same without the fullmove number
ObsButFullmove(b) == <<b.cells, b.side_white, b.castling, b.ep, b.halfmove_clock, b.history>>

\* what C2 compares of two boards
ObsPosition(b) == <<b.cells, b.side_white, b.castling, b.ep, b.halfmove_clock, b.fullmove>>

Made(b, m) == make_move(b, m.from, m.to, m.promotion)

\* C1: on every reachable board, one move of gen_moves made and undone, and
\* two moves made and both undone, leave cells, side to move, castling, ep
\* target, halfmove clock, fullmove number and history as they were.
C1_MakeUndoRestores ==
    /\ \A m \in Range(gen_moves(board)) : Obs(undo_move(Made(board, m))) = Obs(board)
    /\ \A m \in Range(gen_moves(board)) :
         \A n \in Range(gen_moves(Made(board, m))) :
            Obs(undo_move(undo_move(Made(Made(board, m), n)))) = Obs(board)

\* what does hold of make followed by undo: every field but the fullmove number
MakeUndoRestoresButFullmove ==
    \A m \in Range(gen_moves(board)) :
       /\ ObsButFullmove(undo_move(Made(board, m))) = ObsButFullmove(board)
       /\ \A n \in Range(gen_moves(Made(board, m))) :
            ObsButFullmove(undo_move(undo_move(Made(Made(board, m), n)))) = ObsButFullmove(board)

\* C2: on every reachable board with a non-empty history, undo_move followed
\* by redo_move leaves cells, side to move, castling, ep target, halfmove
\* clock and fullmove number as they were before the undo.
C2_UndoRedoRestores ==
    board.history # <<>> => ObsPosition(redo_move(undo_move(board))) = ObsPosition(board)

\* C3: make_move lengthens the history by one and empties the redo stack;
\* undo_move on a non-empty history shortens the history by one and
\* lengthens the redo stack by one; redo_move on a non-empty redo stack
\* shortens the redo stack by one and lengthens the history by one.
C3_StackDiscipline ==
    /\ \A m \in Range(gen_moves(board)) :
         /\ Len(Made(board, m).history) = Len(board.history) + 1
         /\ Made(board, m).redo_stack = <<>>
    /\ board.history # <<>> =>
         /\ Len(undo_move(board).history) = Len(board.history) - 1
         /\ Len(undo_move(board).redo_stack) = Len(board.redo_stack) + 1
    /\ board.redo_stack # <<>> =>
         /\ Len(redo_move(board).redo_stack) = Len(board.redo_stack) - 1
         /\ Len(redo_move(board).history) = Len(board.history) + 1

\* a move was made and undone: the redo stack holds it, and moves can be made
C3_Witness == board.redo_stack # <<>> /\ gen_moves(board) # <<>>

\* C4: no move of gen_moves, once made, leaves the king of the side that
\* moved attacked.
C4_OwnKingSafe ==
    \A m \in Range(gen_moves(board)) :
       ~is_king_attacked(Made(board, m), board.side_white)

\* the castling moves: the king of the side to move goes from e1/e8 to the
\* g- or c-file of its rank
IsCastling(b, m) ==
    /\ b.cells[m.from] = (IF b.side_white THEN "WK" ELSE "BK")
    /\ m.from = (IF b.side_white THEN sq(0, 4) ELSE sq(7, 4))
    /\ m.to \in {m.from + 2, m.from - 2}

\* the rights bit of the castling move m: K = 1, Q = 2, k = 4, q = 8
RightsBit(b, m) ==
    IF b.side_white THEN (IF m.to > m.from THEN 1 ELSE 2)
    ELSE (IF m.to > m.from THEN 4 ELSE 8)

\* the squares strictly between the king and the rook of the castling move m
Between(m) ==
    IF m.to > m.from THEN {m.from + 1, m.from + 2}
    ELSE {m.from - 1, m.from - 2, m.from - 3}

\* the squares the king crosses or lands on
Transit(m) == IF m.to > m.from THEN {m.from + 1, m.from + 2} ELSE {m.from - 1, m.from - 2}

\* C5: a castling move is returned by gen_moves only if its rights bit is
\* set, the squares between king and rook are empty, the king is not in
\* check, and no square the king crosses or lands on is attacked.
C5_CastlingConditions ==
    \A m \in Range(gen_moves(board)) :
       IsCastling(board, m) =>
          /\ HasBit(board.castling, RightsBit(board, m))
          /\ \A s \in Between(m) : is_empty(board.cells[s])
          /\ ~is_king_attacked(board, board.side_white)
          /\ \A s \in Transit(m) : ~is_square_attacked(board, s, ~board.side_white)

\* the part of C5 gen_castling does check: the rights bit and the empty squares
CastlingRightsAndEmpty ==
    \A m \in Range(gen_moves(board)) :
       IsCastling(board, m) =>
          /\ HasBit(board.castling, RightsBit(board, m))
          /\ \A s \in Between(m) : is_empty(board.cells[s])

Count(b, p) == Cardinality({s \in 0..(BOARD_SIZE - 1) : b.cells[s] = p})

\* C6: every board reached by moves of gen_moves, undo_move and redo_move
\* holds exactly one white king and exactly one black king.
C6_OneKingEach == Count(board, "WK") = 1 /\ Count(board, "BK") = 1

\* a move of gen_moves has been made from the standard start position
C6_Witness ==
    /\ board.history # <<>>
    /\ board.cells # StartBoard.cells
    /\ undo_move(board).cells = StartBoard.cells

\* C7: from the standard start position the tree of gen_moves and make_move
\* has 20, 400, 8902, 197281 and 4865609 leaves at depths 1 to 5.
C7_Perft ==
    (board.cells = StartBoard.cells /\ board.history = <<>> /\ board.redo_stack = <<>>) =>
       /\ Perft(board, 1) = 20
       /\ Perft(board, 2) = 400
       /\ Perft(board, 3) = 8902
       /\ Perft(board, 4) = 197281
       /\ Perft(board, 5) = 4865609

\* the counts of C7 that gen_moves does produce: depths 1 and 2
PerftShallow ==
    (board.cells = StartBoard.cells /\ board.history = <<>> /\ board.redo_stack = <<>>) =>
       Perft(board, 1) = 20 /\ Perft(board, 2) = 400

\* C8: when ai_move returns, with or without a deadline, the board has the
\* cells, side to move, castling, ep target, halfmove clock, fullmove number
\* and history it was given.
C8_SearchRestoresBoard == search.done => Obs(search.out.board) = Obs(search.pre)

\* what does hold of the board a search leaves: every field but the fullmove number
SearchRestoresButFullmove ==
    search.done => ObsButFullmove(search.out.board) = ObsButFullmove(search.pre)

\* C9: when the deadline stops search_root in iteration d, the move returned
\* is the move a search of the same board to depth d - 1 without a deadline
\* returns (the best move of the last completed iteration); the move of the
\* interrupted iteration is returned only when d = 1.
C9_DeadlineReturnsLastCompleted ==
    (search.done /\ search.out.timed_out) =>
       IF search.out.at_depth > 1
       THEN /\ search.out.ret = search_root(search.pre, search.out.at_depth - 1, NoLimit).ret
            /\ search.out.ret = Last(search.out.lines).move
       ELSE search.out.ret = search.out.incumbent

\* the deadline fell in a later iteration whose incumbent is another move
\* than the one returned
C9_Witness ==
    /\ search.done /\ search.out.timed_out
    /\ search.out.at_depth > 1
    /\ search.out.incumbent # NoneMove
    /\ search.out.incumbent # search.out.ret

ChessMoves(b) ==
    {m \in Range(PseudoRange(b, 0, 63) \o gen_castling(b)) :
        ~is_king_attacked(Made(b, m), b.side_white)}

\* m checkmates on b: after m the other king is attacked and the other side
\* has no move
Checkmates(b, m) ==
    /\ is_king_attacked(Made(b, m), ~b.side_white)
    /\ ChessMoves(Made(b, m)) = {}

\* C11: on a board where the side to move has a checkmating move,
\* search_root with max_depth 2 and no deadline returns a checkmating move
\* and gives it a score of at least 100000 - 200.
C11_MateInOneFound ==
    (/\ search.done /\ search.max_depth = 2 /\ search.time_limit = NoLimit
     /\ \E m \in ChessMoves(search.pre) : Checkmates(search.pre, m)) =>
       /\ search.out.ret # NoneMove
       /\ Checkmates(search.pre, search.out.ret)
       /\ Last(search.out.lines).score >= 100000 - 200

\* the windows the probes of C12 are tried with
Windows == {0 - 1, 0, 1}

\* after the store that last records, every probe of its key to a depth of
\* at most its depth returns Usable with its value
ProbesUsable ==
    \A d \in 0..last.depth, a \in Windows, b \in Windows :
        /\ probe(tt, last.key, d, a, b).kind = "Usable"
        /\ probe(tt, last.key, d, a, b).value = last.value

C13_ProbeCases ==
    last.op = "probe" =>
        LET e == Slot(tt, index_of(tt, last.key))
            r == last.result
            miss == e.depth < 0 \/ e.key # last.key
            crosses == \/ e.node = "Exact"
                       \/ (e.node = "LowerBound" /\ e.value >= last.beta)
                       \/ (e.node = "UpperBound" /\ e.value <= last.alpha)
            usable == ~miss /\ e.depth >= last.depth /\ crosses
        IN /\ (r.kind = "Miss") <=> miss
           /\ (r.kind = "Usable") <=> usable
           /\ (r.kind = "Found") <=> (~miss /\ ~usable)
           /\ r.kind = "Usable" => (r.value = e.value /\ r.best = e.best)
           /\ r.kind = "Found" => r.entry = e

\* a probe found a lower bound of the depth asked for that does not reach beta
C13_Witness ==
    /\ last.op = "probe"
    /\ last.result.kind = "Found"
    /\ last.result.entry.node = "LowerBound"
    /\ last.result.entry.depth >= last.depth
    /\ last.result.entry.value >= last.alpha
    /\ last.result.entry.value < last.beta

\* the bucket of the store that last records holds what was stored
HoldsStored ==
    LET e == Slot(tt, index_of(tt, last.key))
    IN /\ e.key = last.key
       /\ e.depth = last.depth
       /\ e.value = last.value
       /\ e.node = last.node

\* C14: a store for key k to a depth that is at least the depth of the entry
\* stored under k overwrites that entry, whatever the ages and node types.
C14_SameKeyRefreshed ==
    (/\ last.op = "store"
     /\ last.old.depth >= 0
     /\ last.old.key = last.key
     /\ last.depth >= last.old.depth) => HoldsStored

\* an upper bound was stored over an Exact entry of the same key, depth and
\* age and with another value
C14_Witness ==
    /\ last.op = "store" /\ last.node = "UpperBound"
    /\ last.old.depth = last.depth
    /\ last.old.key = last.key
    /\ last.old.age = last.age
    /\ last.old.node = "Exact"
    /\ last.old.value # last.value
    /\ HoldsStored

\* C15: a store to a depth strictly greater than the depth of the entry in
\* the bucket overwrites it, whatever the stored key, age and node type; the
\* bucket then holds the new key, depth, value and node type.
C15_DeeperOverwrites ==
    (last.op = "store" /\ last.depth > last.old.depth) => HoldsStored

\* an upper bound was stored over a shallower Exact entry of another key and
\* of the same age
C15_Witness ==
    /\ last.op = "store" /\ last.node = "UpperBound"
    /\ last.old.depth >= 0
    /\ last.depth > last.old.depth
    /\ last.old.key # last.key
    /\ last.old.age = last.age
    /\ last.old.node = "Exact"
    /\ HoldsStored

\* the fields of a board that hash_board is to depend on
Hashed(b) == <<b.cells, b.side_white, b.castling, b.ep>>

\* C16: two boards that agree on cells, side to move, castling and ep target
\* get the same hash_board value, whatever their history, redo stack,
\* halfmove clock and fullmove number; so do two move orders that reach the
\* same position.
C16_HashOfPositionOnly ==
    \A b \in InitBoards \cup TransposedBoards :
        Hashed(b) = Hashed(board) => hash_board(zob, b) = hash_board(zob, board)

\* the board is the position of b with another fullmove number and with
\* moves to redo
C16_Witness ==
    \E b \in InitBoards \cup TransposedBoards :
        /\ Hashed(b) = Hashed(board)
        /\ b.fullmove # board.fullmove
        /\ board.redo_stack # <<>>
        /\ hash_board(zob, b) = hash_board(zob, board)

\* the key of the board after m, computed from the key of b by update_move,
\* update_castling and update_ep with what make_move recorded of the move
Incremental(b, m) ==
    LET after == Made(b, m)
        u == Last(after.history)
        h1 == update_move(zob, hash_board(zob, b), m.from, m.to, u.moved_piece, u.captured)
        h2 == update_castling(zob, h1, b.castling, after.castling)
    IN update_ep(zob, h2, b.ep, after.ep)

\* C17: for every move m of gen_moves on the board, update_move,
\* update_castling and update_ep applied to the key of the board give the
\* key hash_board computes for the board after make_move(m).
C17_IncrementalMatchesFull ==
    \A m \in Range(gen_moves(board)) :
        Incremental(board, m) = hash_board(zob, Made(board, m))

\* the text typed names a move of gen_moves on b
Listed(b, text) ==
    \E m \in Range(gen_moves(b)) : MoveText(m) = to_lowercase(trim(text))

\* C18: a move typed by the user that is not in the list of gen_moves is
\* rejected and leaves the board unchanged, through try_make_move and
\* through the move command of the command loop.
C18_UnlistedMoveRejected ==
    (last.op \in {"try_make_move", "move"} /\ ~Listed(last.pre, last.text)) =>
        /\ board = last.pre
        /\ last.op = "try_make_move" => ~last.ok

\* C19: for every move m of gen_moves on the board, the text
\* <from><to>[promo], the promotion a lower-case letter among q, r, b, n, is
\* accepted by try_make_move and the move is made, for promotions of White
\* and of Black.
C19_ListedMoveAccepted ==
    last.op = "try_make_move" =>
        \A m \in Range(gen_moves(last.pre)) :
            last.text = MoveText(m) => (last.ok /\ board = Made(last.pre, m))

\* the cells a FEN with eight ranks of eight files each fills, and nothing else
RankWidth(chars) ==
    IF chars = <<>> THEN 0
    ELSE LET w == [i \in 1..Len(chars) |-> IF is_digit(chars[i]) THEN to_digit(chars[i]) ELSE 1]
             sum[i \in 0..Len(chars)] == IF i = 0 THEN 0 ELSE sum[i - 1] + w[i]
         IN sum[Len(chars)]

\* the FEN has six fields, eight ranks of eight files with piece letters and
\* digits 1 to 8, a side w or b, an en passant target - or a square, and
\* numbers as counters
WellFormed(parts) ==
    /\ Len(parts) = 6
    /\ Len(Split(parts[1], "/")) = 8
    /\ \A r \in Range(Split(parts[1], "/")) :
         /\ RankWidth(r) = 8
         /\ \A c \in Range(r) : from_char(c) # "Empty" \/ (is_digit(c) /\ c \notin {"0", "9"})
    /\ parts[2] \in {<<"w">>, <<"b">>}
    /\ parts[4] = <<"-">> \/ is_valid_square(parts[4])
    /\ \A i \in {5, 6} : parts[i] # <<>> /\ \A c \in Range(parts[i]) : is_digit(c)

\* C20: from_fen on a malformed FEN reports a failure and produces no board
\* that holds part of the input; no piece is ever written to an off-board
\* slot of the 128 cells.
C20_MalformedFenRejected ==
    /\ (last.op = "fen" /\ ~WellFormed(last.text)) => (last.panic /\ board = last.pre)
    /\ \A s \in 0..(BOARD_SIZE - 1) : ~on_board(s) => board.cells[s] = "Empty"

Forward(b) ==
    {[by |-> "make_move", from |-> m.from, to |-> m.to, piece |-> b.cells[m.from],
      after |-> Made(b, m)] : m \in Range(gen_moves(b))}
    \cup (IF b.redo_stack = <<>> THEN {}
          ELSE {[by |-> "redo_move", from |-> Last(b.redo_stack).mv_from,
                 to |-> Last(b.redo_stack).mv_to,
                 piece |-> b.cells[Last(b.redo_stack).mv_from],
                 after |-> redo_move(b)]})

\* C22: make_move and redo_move increase the fullmove number by one when
\* Black moved and leave it unchanged when White moved.
C22_FullmoveAfterBlack ==
    \A f \in Forward(board) :
        f.after.fullmove = IF board.side_white THEN board.fullmove ELSE board.fullmove + 1

\* the move of f is a pawn advancing two squares
DoublePush(f) ==
    /\ f.piece \in {"WP", "BP"}
    /\ f.from % 16 = f.to % 16
    /\ (f.to \div 16) - (f.from \div 16) \in {2, 0 - 2}

\* C23: after make_move and after redo_move the ep target is Some(s) exactly
\* when the half-move played was a pawn advancing two squares, s being the
\* square it skipped; after undo_move the ep target is what it was before
\* the move undone.
C23_EpTarget ==
    \A f \in Forward(board) :
        /\ (f.after.ep # NoneSq) <=> DoublePush(f)
        /\ DoublePush(f) => f.after.ep * 2 = f.from + f.to
        /\ undo_move(f.after).ep = board.ep

\* a double push was made, undone and is there to redo, and a move that is
\* none leaves a board with an ep target
C23_Witness ==
    /\ \E f \in Forward(board) :
         f.by = "redo_move" /\ DoublePush(f) /\ f.after.ep * 2 = f.from + f.to
    /\ \E f \in Forward(board) : f.by = "make_move" /\ ~DoublePush(f)

\* the castling bits that are set in the number n
Rights(n) == {i \in {1, 2, 4, 8} : (n \div i) % 2 = 1}

\* the bits the move of f is to clear: both of the side whose king moves,
\* and that of a corner the move leaves or reaches
ToClear(f) ==
    (IF f.piece = "WK" THEN {1, 2} ELSE {})
    \cup (IF f.piece = "BK" THEN {4, 8} ELSE {})
    \cup {2 : s \in {f.from, f.to} \cap {0}}
    \cup {1 : s \in {f.from, f.to} \cap {7}}
    \cup {8 : s \in {f.from, f.to} \cap {112}}
    \cup {4 : s \in {f.from, f.to} \cap {119}}

\* C24: make_move and redo_move leave castling a subset of its bits: both
\* bits of a side whose king moves and the bit of a corner that is the from
\* or to square of the move are cleared, and nothing else.
C24_CastlingOnlyCleared ==
    \A f \in Forward(board) :
        Rights(f.after.castling) = Rights(board.castling) \ ToClear(f)

\* a king with both rights moves, and a rook that left its corner and lost
\* its right is there to redo
C24_Witness ==
    /\ \E f \in Forward(board) :
         f.by = "make_move" /\ f.piece = "WK" /\ {1, 2} \subseteq Rights(board.castling)
    /\ \E f \in Forward(board) :
         f.by = "redo_move" /\ f.piece = "WR" /\ f.from = 7
           /\ Rights(f.after.castling) = Rights(board.castling) \ {1}
           /\ 1 \in Rights(board.castling)

\* C25: after make_move the halfmove clock is 0 when the piece moved is a
\* pawn or a piece was captured, en passant included, and one more than
\* before otherwise.
C25_HalfmoveClock ==
    \A m \in Range(gen_moves(board)) :
        Made(board, m).halfmove_clock =
            IF board.cells[m.from] \in {"WP", "BP"} \/ board.cells[m.to] # "Empty"
            THEN 0 ELSE board.halfmove_clock + 1

\* on a board with a positive clock there are a pawn move, a capture by a
\* piece and a quiet move of a piece
C25_Witness ==
    /\ board.halfmove_clock > 0
    /\ \E m \in Range(gen_moves(board)) : board.cells[m.from] \in {"WP", "BP"}
    /\ \E m \in Range(gen_moves(board)) :
         board.cells[m.from] \notin {"WP", "BP"} /\ board.cells[m.to] # "Empty"
    /\ \E m \in Range(gen_moves(board)) :
         board.cells[m.from] \notin {"WP", "BP"} /\ board.cells[m.to] = "Empty"

\* the record describes an en passant capture: a pawn that moved to the ep
\* target of the board it moved on, changing file
IsEpRecord(u) ==
    /\ u.moved_piece \in {"WP", "BP"}
    /\ u.prev_ep # NoneSq
    /\ u.mv_to = u.prev_ep
    /\ u.mv_from % 16 # u.mv_to % 16

\* C26: when the record on top of the history describes an en passant
\* capture, pushed by make_move or by redo_move, its captured piece is the
\* enemy pawn taken from the square behind the ep target; undoing it puts
\* that pawn back and leaves the ep target square empty.
C26_EpRecordCapturesPawn ==
    (board.history # <<>> /\ IsEpRecord(Last(board.history))) =>
        LET u == Last(board.history)
            pawn == IF u.moved_piece = "WP" THEN "BP" ELSE "WP"
            behind == IF u.moved_piece = "WP" THEN u.mv_to - 16 ELSE u.mv_to + 16
        IN /\ u.captured = pawn
           /\ undo_move(board).cells[behind] = pawn
           /\ undo_move(board).cells[u.mv_to] = "Empty"

\* the positions in the move list ms of the entries going from `from` to `to`
EntriesFor(ms, from, to) == {i \in 1..Len(ms) : ms[i].from = from /\ ms[i].to = to}

\* m moves a pawn of the side to move onto that side's last rank
ReachesLastRank(b, m) ==
    /\ b.cells[m.from] = (IF b.side_white THEN "WP" ELSE "BP")
    /\ m.to \div 16 = (IF b.side_white THEN 7 ELSE 0)

\* C27: for every pawn move that reaches the last rank gen_moves lists
\* exactly four entries with that from and to square, one for each of queen,
\* rook, bishop and knight of the mover's colour, none without a promotion;
\* a pawn move to any other rank carries no promotion.
C27_FourPromotions ==
    LET ms == gen_moves(board)
    IN \A i \in 1..Len(ms) :
        LET e == EntriesFor(ms, ms[i].from, ms[i].to)
        IN IF ReachesLastRank(board, ms[i])
           THEN /\ Cardinality(e) = 4
                /\ {ms[j].promotion : j \in e}
                     = (IF board.side_white THEN {"WQ", "WR", "WB", "WN"}
                                            ELSE {"BQ", "BR", "BB", "BN"})
           ELSE board.cells[ms[i].from] \in {"WP", "BP"} => ms[i].promotion = NonePiece

\* the 64 squares of the board, by rank and file
RankFileSquares == {r * 16 + f : r \in 0..7, f \in 0..7}

\* the squares strictly between a and s are empty; a and s lie on one rank,
\* file or diagonal
ClearBetween(b, a, s) ==
    LET dr == (s \div 16) - (a \div 16)
        df == (s % 16) - (a % 16)
        n == IF Abs(dr) > Abs(df) THEN Abs(dr) ELSE Abs(df)
        step == (dr \div n) * 16 + (df \div n)
    IN \A k \in 1..(n - 1) : b.cells[a + k * step] = "Empty"

\* the piece of colour `white` on a attacks s, by the rules of chess
PieceAttacks(b, a, s, white) ==
    LET p == b.cells[a]
        dr == (s \div 16) - (a \div 16)
        df == (s % 16) - (a % 16)
    IN a # s /\
       \/ p = (IF white THEN "WP" ELSE "BP") /\ dr = (IF white THEN 1 ELSE 0 - 1) /\ Abs(df) = 1
       \/ p = (IF white THEN "WN" ELSE "BN") /\ {Abs(dr), Abs(df)} = {1, 2}
       \/ p \in (IF white THEN {"WR", "WQ"} ELSE {"BR", "BQ"})
            /\ (dr = 0 \/ df = 0) /\ ClearBetween(b, a, s)
       \/ p \in (IF white THEN {"WB", "WQ"} ELSE {"BB", "BQ"})
            /\ Abs(dr) = Abs(df) /\ ClearBetween(b, a, s)
       \/ p = (IF white THEN "WK" ELSE "BK") /\ Abs(dr) <= 1 /\ Abs(df) <= 1

\* C28: is_square_attacked(s, side) is true exactly when a piece of that
\* side attacks s: a pawn diagonally behind s in its forward direction, a
\* knight at a knight offset, a rook, bishop or queen along its lines with
\* only empty squares in between, or a king on an adjacent square.
C28_AttackedIffPieceAttacks ==
    LET occupied == {a \in RankFileSquares : board.cells[a] # "Empty"}
    IN \A s \in RankFileSquares : \A white \in BOOLEAN :
        is_square_attacked(board, s, white)
            <=> \E a \in occupied : PieceAttacks(board, a, s, white)

\* a slider attacks a square two or more steps away, another slider is
\* shut off from a square that nothing else attacks, and a pawn attacks
C28_Witness ==
    /\ \E s, a \in RankFileSquares : \E white \in BOOLEAN :
          /\ board.cells[a] \in (IF white THEN {"WR", "WB", "WQ"} ELSE {"BR", "BB", "BQ"})
          /\ PieceAttacks(board, a, s, white)
          /\ Abs((s \div 16) - (a \div 16)) + Abs((s % 16) - (a % 16)) >= 2
          /\ is_square_attacked(board, s, white)
    /\ \E s, a \in RankFileSquares : \E white \in BOOLEAN :
          /\ board.cells[a] = (IF white THEN "WR" ELSE "BR")
          /\ a # s /\ a % 16 = s % 16
          /\ ~ClearBetween(board, a, s)
          /\ ~is_square_attacked(board, s, white)
    /\ \E s, a \in RankFileSquares : \E white \in BOOLEAN :
          /\ board.cells[a] = (IF white THEN "WP" ELSE "BP")
          /\ PieceAttacks(board, a, s, white)
          /\ is_square_attacked(board, s, white)

\* the order the moves are said to be searched in: the first move with the
\* from and to of the hint tm, then the other captures, then the other
\* quiet moves, each group in the order of generation
HintCapturesQuiets(b, moves, tm) ==
    LET hits == {i \in 1..Len(moves) : moves[i].from = tm.from /\ moves[i].to = tm.to}
        pos == IF tm = NoneMove \/ hits = {} THEN 0
               ELSE CHOOSE i \in hits : \A j \in hits : i <= j
        rest == SubSeq(moves, 1, pos - 1) \o SubSeq(moves, pos + 1, Len(moves))
    IN (IF pos = 0 THEN <<>> ELSE <<moves[pos]>>)
       \o SelectSeq(rest, LAMBDA m : b.cells[m.to] # "Empty")
       \o SelectSeq(rest, LAMBDA m : b.cells[m.to] = "Empty")

\* C29: negamax searches the legal moves in this order: the move hinted by
\* the transposition table first when it is a legal move, then the
\* captures, then the quiet moves, generation order kept inside each group.
C29_HintThenCapturesThenQuiets ==
    LET moves == gen_moves(board)
    IN \A tm \in {NoneMove} \cup Range(moves) :
        OrderMoves(board, moves, tm) = HintCapturesQuiets(board, moves, tm)

ShallowerStore == last.op = "store" /\ last.old.depth >= 0 /\ last.depth < last.old.depth

\* the bucket of the last store holds the entry of that store
Overwritten ==
    Slot(tt, index_of(tt, last.key))
        = NewEntry(last.key, last.depth, last.value, last.node, last.age, last.best_move)

\* the bucket of the last store holds what it held before
Kept == Slot(tt, index_of(tt, last.key)) = last.old

NodeRank(node) ==
    CASE node = "Exact" -> 3 [] node = "LowerBound" -> 2 [] node = "UpperBound" -> 1

\* the last action stored to the depth of the entry in the bucket, an entry
\* of another key
EqualDepthOtherKey ==
    /\ last.op = "store"
    /\ last.old.depth >= 0
    /\ last.depth = last.old.depth
    /\ last.old.key # last.key

RECURSIVE FloorLog2(_)
FloorLog2(q) == IF q < 2 THEN 0 ELSE 1 + FloorLog2(q \div 2)

\* C33: the bucket count of a new table is a power of two: new_buckets(n)
\* gives the smallest power of two >= n, and new_strict_size_mb(m) gives the
\* largest power of two <= (m * 2^20) / entry_size, at least 1.
C33_PowerOfTwoSizing ==
    /\ last.op = "new_buckets" =>
          /\ \E k \in 0..TableShiftLimit : tt.count = Pow2(k)
          /\ tt.count >= last.asked
          /\ tt.count = 1 \/ tt.count \div 2 < last.asked
    /\ last.op = "new_strict_size_mb" =>
          LET q == (last.size_mb * 1048576) \div SizeOfTTEntry
          IN last.pow = (IF q = 0 THEN 0 ELSE FloorLog2(q))

\* every bucket of the table holds what it held before the last load
EntriesAsBefore ==
    \A i \in 0..(tt.count - 1) : Slot(tt, Word(i)) = Slot(last.pre, Word(i))

\* C34: load_from_file returns an error when the magic of the file is not
\* 'TTAB' or its bucket count differs from that of the table, and whenever
\* it returns an error (these two cases or a file that ends early) every
\* entry of the table is as before the call.
C34_FailedLoadChangesNothing ==
    last.op = "load" =>
        /\ (Len(last.file) >= 1 /\ last.file[1] # TTMagic) => ~last.ok
        /\ (Len(last.file) >= 2 /\ last.file[2] # last.pre.count) => ~last.ok
        /\ ~last.ok => EntriesAsBefore

\* C35: a search leaves the redo stack of the caller as it was: after the
\* user has undone moves and ai_move has run, the redo stack holds the
\* records it held before the search, so that redo_move replays the move
\* the user undid.
C35_SearchKeepsRedoStack ==
    (search.done /\ search.pre.redo_stack # <<>>) =>
        search.out.board.redo_stack = search.pre.redo_stack

\* the home square of the king and the corner of the rook of a castling bit
CastlingHome(bitv) ==
    CASE bitv = 1 -> [king |-> "WK", home |-> sq(0, 4), rook |-> "WR", corner |-> sq(0, 7)]
      [] bitv = 2 -> [king |-> "WK", home |-> sq(0, 4), rook |-> "WR", corner |-> sq(0, 0)]
      [] bitv = 4 -> [king |-> "BK", home |-> sq(7, 4), rook |-> "BR", corner |-> sq(7, 7)]
      [] bitv = 8 -> [king |-> "BK", home |-> sq(7, 4), rook |-> "BR", corner |-> sq(7, 0)]

\* the corner a castling move takes its rook from
CastlingCorner(m) ==
    sq(m.from \div 16, IF m.to > m.from THEN 7 ELSE 0)

\* C36: in every position reached from the standard start position by the
\* moves of gen_moves, undo_move and redo_move, a castling bit that is set
\* means that the king of that side is on its home square of the e-file and
\* the rook of that side on the corner of the bit, so that every move
\* gen_castling emits moves a king and relocates a rook of its side.
C36_CastlingBitsHaveKingAndRook ==
    /\ \A bitv \in Rights(board.castling) :
         /\ board.cells[CastlingHome(bitv).home] = CastlingHome(bitv).king
         /\ board.cells[CastlingHome(bitv).corner] = CastlingHome(bitv).rook
    /\ \A m \in Range(gen_castling(board)) :
         /\ board.cells[m.from] = (IF board.side_white THEN "WK" ELSE "BK")
         /\ board.cells[CastlingCorner(m)] = (IF board.side_white THEN "WR" ELSE "BR")

\* gen_castling emits a castling move for White, whose bits are set, after
\* Black's rook has left h8 and lost its bit, and a move was undone
C36_Witness ==
    /\ gen_castling(board) # <<>>
    /\ board.side_white
    /\ Rights(board.castling) = {1, 2, 8}
    /\ board.redo_stack # <<>>

\* search_root returned None exactly when gen_moves has no move for the
\* root, and a move it returned is one of gen_moves for the root
NoneIffNoMove ==
    /\ (search.out.ret = NoneMove) <=> (gen_moves(search.pre) = <<>>)
    /\ search.out.ret # NoneMove => search.out.ret \in Range(gen_moves(search.pre))

\* C37 as stated: search_root returns None if and only if the root position
\* has no legal move, for every max_depth and every time limit, and every
\* move it returns is one of the moves gen_moves produces for the root.
C37_NoneIffNoLegalMove == search.done => NoneIffNoMove

\* C37: search_root returns None if and only if the root position has no
\* legal move, for every max_depth of at least 1 and every time limit, and
\* every move it returns is one of the moves gen_moves produces for the root.
C37_NoneIffNoLegalMoveFromDepthOne ==
    (search.done /\ search.max_depth >= 1) => NoneIffNoMove

\* a deadline that has passed when the search starts, on a root with several
\* moves: a move is returned all the same
C37_Witness ==
    /\ search.done /\ search.max_depth >= 1
    /\ search.time_limit = 0
    /\ Len(gen_moves(search.pre)) > 1
    /\ search.out.ret \in Range(gen_moves(search.pre))

\* the pieces on the board
PieceCount(b) == Cardinality({x \in DOMAIN b.cells : on_board(x) /\ ~is_empty(b.cells[x])})

\* what bounds the recursion below the top frame: the remaining depth, then
\* the pieces on the board
Measure(l, b) == Top(l.frames).depth * (BOARD_SIZE + 1) + PieceCount(b)

\* the step is a call of negamax or quiescence
IsCall == last.op = "search" /\ last'.op = "search" /\ Len(last'.frames) > Len(last.frames)

\* a call has less remaining depth than its caller, or, in quiescence, a
\* board with fewer pieces
CallDecreasesMeasure ==
    IsCall => /\ Measure(last', board') < Measure(last, board)
              /\ Top(last'.frames).depth >= 0

\* C38: without a deadline search_root terminates, for every position and
\* every max_depth: every call of negamax has less remaining depth than its
\* caller, every move quiescence follows lands on an occupied square and
\* leaves fewer pieces on the board, and the search that was entered returns.
C38_SearchTerminates ==
    /\ [][CallDecreasesMeasure]_vars
    /\ (last.op = "search") ~> (last.op = "returned")

\* quiescence has followed a capture from a position negamax reached at
\* depth 2
C38_Witness ==
    /\ last.op = "search" /\ last.max_depth = 2
    /\ Len(last.frames) >= 4
    /\ Top(last.frames).kind = "quiescence"
    /\ last.frames[Len(last.frames) - 1].kind = "quiescence"
====
